---- MODULE Spec2Model ----
(***************************************************************************)
(* Complaint portal backend (anishxagrawal/complaint-portal).              *)
(*                                                                         *)
(* The relational store (users, complaints, complaint_status_history),     *)
(* the issued bearer tokens and the last request/response are the state.   *)
(* Every HTTP handler is one action; a handler that takes                  *)
(* `current_user = Depends(get_current_user)` is modelled from the point   *)
(* where the dependency has yielded a User row (the `caller` parameter);   *)
(* the dependency itself is the separate action Authenticate.              *)
(*                                                                         *)
(* Python None / SQL NULL is NoneStr for text columns, NoneId for integer  *)
(* keys (primary keys start at 1) and NoTime for timestamps (the clock     *)
(* starts at 1).                                                           *)
(***************************************************************************)
EXTENDS Integers, Sequences, FiniteSets, TLC

VARIABLES
    users,        \* table users: id -> row
    complaints,   \* table complaints: id -> row
    history,      \* table complaint_status_history, rows in commit order
    tokens,       \* bearer tokens handed out so far
    now,          \* datetime.utcnow(), in minutes
    last,         \* the last request and its response
    tr,           \* the last evaluation of the transition helpers of enums.py
    conversations, \* ConversationService.conversations: id -> session
    departments,  \* table departments: id -> name
    issue_types,  \* table issue_types: id -> row
    inflight      \* requests between their first query and their commit

\* the tables of the catalogue
catalog == <<departments, issue_types>>

vars == <<users, complaints, history, tokens, now, last, tr, conversations,
          departments, issue_types, inflight>>

(***************************************************************************)
(* Bounds of the model.                                                    *)
(***************************************************************************)
MaxHistory == 4
MaxTime == 21
MaxTokens == 2
MaxUsers == 5
MaxConversations == 1
MaxMessages == 4
MaxDepartments == 3
MaxIssueTypes == 4

NoneStr == "<None>"
NoneId == 0
NoTime == 0

(***************************************************************************)
(* enums.py                                                                *)
(***************************************************************************)
ADMIN == "admin"
USER == "user"
DEPARTMENT_MANAGER == "department_manager"
UserRole == {ADMIN, USER, DEPARTMENT_MANAGER}

PENDING == "pending"
ASSIGNED == "assigned"
IN_PROGRESS == "in_progress"
RESOLVED == "resolved"
CLOSED == "closed"
REJECTED == "rejected"
ComplaintStatus == {PENDING, ASSIGNED, IN_PROGRESS, RESOLVED, CLOSED, REJECTED}

\* str.lower() on the status spellings the requests of the model use; any
\* other string of the model is already lower case.
lower(s) ==
    CASE s \in {"PENDING", "Pending"} -> "pending"
      [] s \in {"ASSIGNED", "Assigned"} -> "assigned"
      [] s \in {"IN_PROGRESS", "In_Progress"} -> "in_progress"
      [] s \in {"RESOLVED", "Resolved"} -> "resolved"
      [] s \in {"CLOSED", "Closed"} -> "closed"
      [] s \in {"REJECTED", "Rejected"} -> "rejected"
      [] s \in {"OPEN", "Open"} -> "open"
      [] OTHER -> s

Staff == {ADMIN, DEPARTMENT_MANAGER}

\* a plausible slip: the prose of the state machine ("rejected ... reachable
\* from pending, assigned, or in_progress") and a reopening of closed
\* complaints written into the table
STATUS_TRANSITIONS_Loose ==
    [s \in ComplaintStatus |->
        CASE s = PENDING -> (ASSIGNED :> Staff) @@ (REJECTED :> Staff)
          [] s = ASSIGNED -> (IN_PROGRESS :> Staff) @@ (REJECTED :> Staff)
          [] s = IN_PROGRESS -> (RESOLVED :> Staff) @@ (ASSIGNED :> Staff)
                                @@ (REJECTED :> Staff)
          [] s = RESOLVED -> (CLOSED :> (Staff \cup {USER})) @@ (IN_PROGRESS :> Staff)
          [] s = CLOSED -> (IN_PROGRESS :> Staff)
          [] s = REJECTED -> <<>>]

\* a slip: a rejected complaint may be re-opened
STATUS_TRANSITIONS_Reopen ==
    [s \in ComplaintStatus |->
        CASE s = PENDING -> (ASSIGNED :> Staff) @@ (REJECTED :> Staff)
          [] s = ASSIGNED -> (IN_PROGRESS :> Staff) @@ (REJECTED :> Staff)
          [] s = IN_PROGRESS -> (RESOLVED :> Staff) @@ (ASSIGNED :> Staff)
          [] s = RESOLVED -> (CLOSED :> (Staff \cup {USER})) @@ (IN_PROGRESS :> Staff)
          [] s = CLOSED -> <<>>
          [] s = REJECTED -> (ASSIGNED :> Staff)]

\* current -> (new -> allowed roles)
STATUS_TRANSITIONS ==
    [s \in ComplaintStatus |->
        CASE s = PENDING -> (ASSIGNED :> Staff) @@ (REJECTED :> Staff)
          [] s = ASSIGNED -> (IN_PROGRESS :> Staff) @@ (REJECTED :> Staff)
          [] s = IN_PROGRESS -> (RESOLVED :> Staff) @@ (ASSIGNED :> Staff)
          [] s = RESOLVED -> (CLOSED :> (Staff \cup {USER})) @@ (IN_PROGRESS :> Staff)
          [] s = CLOSED -> <<>>
          [] s = REJECTED -> <<>>]

\* ComplaintStatus(x) raises ValueError unless x is one of the six values
IsStatusValue(x) == x \in ComplaintStatus

can_transition_status(current_status, new_status, user_role) ==
    IF ~IsStatusValue(lower(current_status)) \/ ~IsStatusValue(lower(new_status))
    THEN FALSE
    ELSE LET current == lower(current_status)
             new == lower(new_status)
         IN IF current \notin DOMAIN STATUS_TRANSITIONS THEN FALSE
            ELSE IF new \notin DOMAIN STATUS_TRANSITIONS[current] THEN FALSE
            ELSE user_role \in STATUS_TRANSITIONS[current][new]

get_allowed_transitions(current_status, user_role) ==
    IF ~IsStatusValue(lower(current_status)) THEN {}
    ELSE LET current == lower(current_status)
         IN IF current \notin DOMAIN STATUS_TRANSITIONS THEN {}
            ELSE {n \in DOMAIN STATUS_TRANSITIONS[current] :
                        user_role \in STATUS_TRANSITIONS[current][n]}

\* workflow_service.py imports is_valid_transition from app.enums, which
\* does not define it; it is the role-blind validity check of the state
\* table: case-insensitive on both arguments, false for unknown names.
is_valid_transition(current_status, new_status) ==
    /\ IsStatusValue(lower(current_status))
    /\ IsStatusValue(lower(new_status))
    /\ lower(new_status) \in DOMAIN STATUS_TRANSITIONS[lower(current_status)]

(***************************************************************************)
(* The seeded store.                                                       *)
(***************************************************************************)
Sanitation == "Sanitation"
Roads == "Roads"

\* the catalogue every deployment starts with: departments id -> name,
\* issue_types id -> row
SeedDepartments == (1 :> Sanitation) @@ (2 :> Roads)
SeedIssueTypes ==
    (1 :> [name |-> "Sanitation", department_id |-> 1])
    @@ (2 :> [name |-> "Roads", department_id |-> 2])

\* core/security.py: a bcrypt hash verifies exactly the password it was made of
hash_password(password) == <<"bcrypt", password>>
verify_password(plain_password, hashed_password) ==
    hashed_password = <<"bcrypt", plain_password>>

\* a user row as signup / admin creation leaves it
\* a user row that is verified from the start
NewUser_Verified(email, password, role, department) ==
    [email |-> email, hashed_password |-> hash_password(password),
     is_verified |-> TRUE,
     failed_login_attempts |-> 0, login_locked_until |-> NoTime,
     role |-> role, department |-> department,
     otp_secret |-> NoneStr, otp_expires_at |-> NoTime,
     failed_otp_attempts |-> 0, otp_locked_until |-> NoTime]

NewUser(email, password, role, department) ==
    [email |-> email, hashed_password |-> hash_password(password),
     is_verified |-> FALSE,
     failed_login_attempts |-> 0, login_locked_until |-> NoTime,
     role |-> role, department |-> department,
     otp_secret |-> NoneStr, otp_expires_at |-> NoTime,
     failed_otp_attempts |-> 0, otp_locked_until |-> NoTime]

SeedUsers ==
    (1 :> [NewUser("admin@x", "pw1", ADMIN, NoneStr) EXCEPT !.is_verified = TRUE])
    @@ (2 :> [NewUser("mgr@x", "pw2", DEPARTMENT_MANAGER, Sanitation)
                  EXCEPT !.is_verified = TRUE])
    @@ (3 :> [NewUser("a@x", "pw3", USER, NoneStr) EXCEPT !.is_verified = TRUE])
    @@ (4 :> [NewUser("b@x", "pw4", USER, NoneStr) EXCEPT !.is_verified = TRUE])

\* a complaint row as filed: the column defaults of models/complaints.py
NewComplaint(user_id, submitted_by, data, created_at) ==
    [user_id |-> user_id, submitted_by |-> submitted_by,
     issue_type_id |-> data.issue_type_id,
     description |-> data.description, address |-> data.address,
     status |-> "pending", department |-> NoneStr,
     assigned_to |-> NoneId, assigned_at |-> NoTime,
     resolved_at |-> NoTime, resolved_by |-> NoneId,
     resolution_notes |-> NoneStr, urgency |-> "medium",
     created_at |-> created_at, updated_at |-> created_at]

NoCheck == [op |-> "none"]

(***************************************************************************)
(* enums.py: permissions                                                   *)
(***************************************************************************)
Permission ==
    {"view_all_complaints", "view_own_complaints", "view_department_complaints",
     "create_complaint", "update_complaint", "delete_complaint",
     "assign_complaint", "manage_users", "view_users", "change_complaint_status"}

ROLE_PERMISSIONS ==
    (ADMIN :> Permission)
    @@ (USER :> {"view_own_complaints", "create_complaint", "update_complaint"})
    @@ (DEPARTMENT_MANAGER :>
            {"view_department_complaints", "create_complaint", "update_complaint",
             "assign_complaint", "view_users", "change_complaint_status"})

get_role_permissions(role) ==
    IF role \in DOMAIN ROLE_PERMISSIONS THEN ROLE_PERMISSIONS[role] ELSE {}

has_permission(role, permission) == permission \in get_role_permissions(role)

\* the members of the enum ComplaintStatus: NAME -> value
\* a slip: the enum has a member OPEN for the status a complaint is filed with
ComplaintStatusMembers_Open ==
    ("PENDING" :> PENDING) @@ ("ASSIGNED" :> ASSIGNED)
    @@ ("IN_PROGRESS" :> IN_PROGRESS) @@ ("RESOLVED" :> RESOLVED)
    @@ ("CLOSED" :> CLOSED) @@ ("REJECTED" :> REJECTED) @@ ("OPEN" :> PENDING)

ComplaintStatusMembers ==
    ("PENDING" :> PENDING) @@ ("ASSIGNED" :> ASSIGNED)
    @@ ("IN_PROGRESS" :> IN_PROGRESS) @@ ("RESOLVED" :> RESOLVED)
    @@ ("CLOSED" :> CLOSED) @@ ("REJECTED" :> REJECTED)

(***************************************************************************)
(* Requests and responses.                                                 *)
(***************************************************************************)
Response(op, caller, cid, arg, code, result) ==
    [op |-> op, caller |-> caller, cid |-> cid, arg |-> arg, code |-> code,
     result |-> result]

NoRequest == Response("none", NoneId, NoneId, NoneStr, 0, <<>>)

\* Python truthiness of an Optional[str] column or field
Truthy(s) == s # NoneStr /\ s # ""

(***************************************************************************)
(* middleware/permissions.py                                               *)
(***************************************************************************)
\* status code of require_permission(permission) for the resolved caller
require_permission(caller, permission) ==
    IF has_permission(users[caller].role, permission) THEN 200 ELSE 403

require_any_permission(caller, permissions) ==
    IF \E p \in permissions : has_permission(users[caller].role, p)
    THEN 200 ELSE 403

\* status code of require_complaint_access(complaint_id) for the caller
require_complaint_access(caller, complaint_id) ==
    IF complaint_id \notin DOMAIN complaints THEN 404
    ELSE IF has_permission(users[caller].role, "view_all_complaints") THEN 200
    ELSE IF has_permission(users[caller].role, "view_own_complaints")
         THEN IF complaints[complaint_id].submitted_by # caller THEN 403 ELSE 200
    ELSE IF has_permission(users[caller].role, "view_department_complaints")
         THEN IF complaints[complaint_id].department # users[caller].department
              THEN 403 ELSE 200
    ELSE 403

(***************************************************************************)
(* services/workflow_service.py                                            *)
(***************************************************************************)
\* the lookups and the validation that precede the try block of change_status
change_status_check_Unvalidated(complaint_id, new_status) ==
    IF complaint_id \notin DOMAIN complaints THEN 404
    ELSE IF ~IsStatusValue(lower(new_status)) THEN 400
    ELSE 200

change_status_check(complaint_id, new_status) ==
    IF complaint_id \notin DOMAIN complaints THEN 404
    ELSE IF ~is_valid_transition(complaints[complaint_id].status, new_status)
         THEN 400
    ELSE 200

_auto_assign_department(c) ==
    IF /\ c.issue_type_id \in DOMAIN issue_types
       /\ issue_types[c.issue_type_id].department_id # NoneId
       /\ issue_types[c.issue_type_id].department_id \in DOMAIN departments
    THEN [c EXCEPT !.department =
                 departments[issue_types[c.issue_type_id].department_id]]
    ELSE c

\* a slip: the raw request string is stored
change_status_apply_Raw(c, new_status, user_id, comment) ==
    [c EXCEPT !.status = new_status, !.updated_at = now]

\* the complaint row as the try block of change_status leaves it
change_status_apply(c, new_status, user_id, comment) ==
    LET c1 == [c EXCEPT !.status = lower(new_status), !.updated_at = now]
    IN IF new_status = ASSIGNED
       THEN LET c2 == [c1 EXCEPT !.assigned_at = now]
            IN IF ~Truthy(c2.department) THEN _auto_assign_department(c2) ELSE c2
       ELSE IF new_status = IN_PROGRESS
       THEN IF c1.assigned_to = NoneId
            THEN [c1 EXCEPT !.assigned_to = user_id] ELSE c1
       ELSE IF new_status = RESOLVED
       THEN [c1 EXCEPT !.resolved_at = now, !.resolved_by = user_id,
                       !.resolution_notes = IF Truthy(comment) THEN comment ELSE @]
       ELSE c1

\* a slip: the row records the new status as the old one
history_row_NewAsOld(complaint_id, old, c, new_status, user_id, comment, reason) ==
    [complaint_id |-> complaint_id, old_status |-> c.status,
     new_status |-> lower(new_status), changed_by |-> user_id,
     comment |-> comment, reason |-> reason, assigned_to |-> c.assigned_to,
     changed_at |-> now]

\* the ComplaintStatusHistory row change_status adds; c is the updated complaint
history_row(complaint_id, old, c, new_status, user_id, comment, reason) ==
    [complaint_id |-> complaint_id, old_status |-> old.status,
     new_status |-> lower(new_status), changed_by |-> user_id,
     comment |-> comment, reason |-> reason, assigned_to |-> c.assigned_to,
     changed_at |-> now]

\* PATCH /complaints/{id}/status; commit_ok is whether db.commit() succeeds
\* a slip: the complaint is written before the history row and a failed
\* commit is not rolled back
ChangeStatus_NoRollback(caller, complaint_id, new_status, comment, reason, commit_ok) ==
    LET code == change_status_check(complaint_id, new_status)
        resp(k) == Response("change_status", caller, complaint_id, new_status, k, <<>>)
    IN IF code # 200
       THEN /\ last' = resp(code)
            /\ UNCHANGED <<users, complaints, history, tokens, now, tr, conversations, catalog, inflight>>
       ELSE LET old == complaints[complaint_id]
                new == change_status_apply(old, new_status, caller, comment)
            IN /\ Len(history) < MaxHistory
               /\ complaints' = [complaints EXCEPT ![complaint_id] = new]
               /\ history' = IF commit_ok
                             THEN Append(history,
                                      history_row(complaint_id, old, new, new_status,
                                                  caller, comment, reason))
                             ELSE history
               /\ last' = resp(IF commit_ok THEN 200 ELSE 500)
               /\ UNCHANGED <<users, tokens, now, tr, conversations, catalog, inflight>>

ChangeStatus(caller, complaint_id, new_status, comment, reason, commit_ok) ==
    LET code == change_status_check(complaint_id, new_status)
        resp(k) == Response("change_status", caller, complaint_id, new_status, k, <<>>)
    IN IF code # 200
       THEN /\ last' = resp(code)
            /\ UNCHANGED <<users, complaints, history, tokens, now, tr, conversations, catalog, inflight>>
       ELSE IF ~commit_ok
       THEN \* except Exception: db.rollback(); HTTPException(500)
            /\ last' = resp(500)
            /\ UNCHANGED <<users, complaints, history, tokens, now, tr, conversations, catalog, inflight>>
       ELSE LET old == complaints[complaint_id]
                new == change_status_apply(old, new_status, caller, comment)
            IN /\ Len(history) < MaxHistory
               /\ complaints' = [complaints EXCEPT ![complaint_id] = new]
               /\ history' = Append(history,
                      history_row(complaint_id, old, new, new_status, caller,
                                  comment, reason))
               /\ last' = resp(200)
               /\ UNCHANGED <<users, tokens, now, tr, conversations, catalog, inflight>>

\* the checks that precede the try block of assign_to_officer
assign_to_officer_check(caller, complaint_id, officer_id) ==
    IF users[caller].role \notin {ADMIN, DEPARTMENT_MANAGER} THEN 403
    ELSE IF complaint_id \notin DOMAIN complaints THEN 404
    ELSE IF officer_id \notin DOMAIN users THEN 404
    ELSE IF /\ users[caller].role = DEPARTMENT_MANAGER
            /\ users[officer_id].department # users[caller].department THEN 403
    ELSE 200

\* POST /complaints/{id}/assign-officer.  The try block reads
\* ComplaintStatus.OPEN, which is not a member of the enum: AttributeError,
\* caught by `except Exception`, rolled back and answered with 500.
AssignToOfficer(caller, complaint_id, officer_id, commit_ok) ==
    LET code == assign_to_officer_check(caller, complaint_id, officer_id)
        resp(k) == Response("assign_to_officer", caller, complaint_id, officer_id, k, <<>>)
    IN IF code # 200
       THEN /\ last' = resp(code)
            /\ UNCHANGED <<users, complaints, history, tokens, now, tr, conversations, catalog, inflight>>
       ELSE IF "OPEN" \notin DOMAIN ComplaintStatusMembers \/ ~commit_ok
       THEN /\ last' = resp(500)
            /\ UNCHANGED <<users, complaints, history, tokens, now, tr, conversations, catalog, inflight>>
       ELSE LET c == complaints[complaint_id]
                c1 == [c EXCEPT !.assigned_to = officer_id, !.assigned_at = now]
                c2 == IF c1.status = ComplaintStatusMembers["OPEN"]
                      THEN [c1 EXCEPT !.status = ASSIGNED] ELSE c1
            IN /\ complaints' = [complaints EXCEPT ![complaint_id] = c2]
               /\ last' = resp(200)
               /\ UNCHANGED <<users, history, tokens, now, tr, conversations, catalog, inflight>>

\* a slip: the department test for managers is left out
get_status_history_check_NoManager(caller, complaint_id) ==
    IF complaint_id \notin DOMAIN complaints THEN 404
    ELSE IF /\ users[caller].role = USER
            /\ complaints[complaint_id].user_id # caller THEN 403
    ELSE 200

\* the checks of WorkflowService.get_status_history before the query
get_status_history_check(caller, complaint_id) ==
    IF complaint_id \notin DOMAIN complaints THEN 404
    ELSE IF /\ users[caller].role = USER
            /\ complaints[complaint_id].user_id # caller THEN 403
    ELSE IF /\ users[caller].role = DEPARTMENT_MANAGER
            /\ complaints[complaint_id].department # users[caller].department
         THEN 403
    ELSE 200

Reverse(seq) == [i \in 1..Len(seq) |-> seq[Len(seq) + 1 - i]]

\* the rows of a complaint ordered by changed_at descending; rows are
\* appended in time order
get_status_history(complaint_id) ==
    Reverse(SelectSeq(history, LAMBDA h : h.complaint_id = complaint_id))

\* GET /complaints/{id}/history
GetStatusHistory(caller, complaint_id) ==
    LET code == get_status_history_check(caller, complaint_id)
        rows == get_status_history(complaint_id)
    IN /\ last' = Response("get_status_history", caller, complaint_id, NoneStr, code,
                           IF code = 200
                           THEN [count |-> Len(rows), data |-> rows] ELSE <<>>)
       /\ UNCHANGED <<users, complaints, history, tokens, now, tr, conversations, catalog, inflight>>

(***************************************************************************)
(* services/complaint_service.py and routers/complaints.py                 *)
(***************************************************************************)
\* a request body the schema refuses: RequestValidationError, answered 422
ValidationError == "<422>"

\* A text is the sequence of the pieces between its single spaces, so that
\* <<"", "", "abc">> is "  abc": len(v) of Python
RECURSIVE len(_)
len(v) ==
    IF v = <<>> THEN 0
    ELSE IF Len(v) = 1 THEN Len(v[1])
    ELSE LET half == Len(v) \div 2
         IN len(SubSeq(v, 1, half)) + 1 + len(SubSeq(v, half + 1, Len(v)))

\* v.strip(): the spaces at both ends go
RECURSIVE text_strip(_)
text_strip(v) ==
    IF v = <<>> THEN <<>>
    ELSE IF Head(v) = "" THEN text_strip(Tail(v))
    ELSE IF v[Len(v)] = "" THEN text_strip(SubSeq(v, 1, Len(v) - 1))
    ELSE v

\* the schema ComplaintCreate (the body's user_id is taken as positive): the
\* Field constraints apply to the text as sent, the validators then strip it
\* and refuse it when nothing is left
ComplaintCreate_errors(data) ==
    \/ data.issue_type_id <= 0
    \/ len(data.description) < 10 \/ len(data.description) > 1000
    \/ len(data.address) < 5 \/ len(data.address) > 500
    \/ len(text_strip(data.description)) = 0
    \/ len(text_strip(data.address)) = 0

\* the body the handler receives when the schema has no errors
ComplaintCreate(data) ==
    [data EXCEPT !.description = text_strip(@), !.address = text_strip(@)]

\* the row ComplaintService.create builds: Complaint(user_id=, issue_type_id=,
\* description=, address=); submitted_by is left unset
create_row(user_id, data) == NewComplaint(user_id, NoneId, data, now)

\* the nullable=False columns of the table complaints
NotNullViolation(row) ==
    \/ row.user_id = NoneId
    \/ row.submitted_by = NoneId
    \/ row.issue_type_id = NoneId

NextComplaintId ==
    IF DOMAIN complaints = {} THEN 1
    ELSE 1 + CHOOSE m \in DOMAIN complaints : \A c \in DOMAIN complaints : c <= m

\* POST /complaints/
CreateComplaint(caller, data, commit_ok) ==
    LET k1 == require_permission(caller, "create_complaint")
        body == ComplaintCreate(data)
        row == create_row(caller, body)
        resp(k, id) == Response("create", caller, id, data, k, <<>>)
    IN IF k1 # 200
       THEN /\ last' = resp(k1, NoneId)
            /\ UNCHANGED <<users, complaints, history, tokens, now, tr, conversations, catalog, inflight>>
       ELSE IF ComplaintCreate_errors(data)
       THEN /\ last' = resp(422, NoneId)
            /\ UNCHANGED <<users, complaints, history, tokens, now, tr, conversations, catalog, inflight>>
       ELSE IF caller \notin DOMAIN users \/ body.issue_type_id \notin DOMAIN issue_types
       THEN /\ last' = resp(404, NoneId)
            /\ UNCHANGED <<users, complaints, history, tokens, now, tr, conversations, catalog, inflight>>
       ELSE IF NotNullViolation(row) \/ ~commit_ok
       THEN \* IntegrityError on commit: rollback, HTTPException(500)
            /\ last' = resp(500, NoneId)
            /\ UNCHANGED <<users, complaints, history, tokens, now, tr, conversations, catalog, inflight>>
       ELSE /\ complaints' = complaints @@ (NextComplaintId :> row)
            /\ last' = resp(201, NextComplaintId)
            /\ UNCHANGED <<users, history, tokens, now, tr, conversations, catalog, inflight>>

\* a slip: the manager branch is dropped and managers see everything
\* a slip: no role narrows the query
_apply_role_filter_Open(S, caller) == S

_apply_role_filter_NoDepartment(S, caller) ==
    IF users[caller].role = USER
    THEN {c \in S : complaints[c].user_id = caller}
    ELSE S

\* the complaint ids of S that the caller's role lets through
_apply_role_filter(S, caller) ==
    IF users[caller].role = ADMIN THEN S
    ELSE IF users[caller].role = USER
    THEN {c \in S : complaints[c].user_id = caller}
    ELSE IF users[caller].role = DEPARTMENT_MANAGER
    THEN {c \in S : complaints[c].department = users[caller].department}
    ELSE {}

RECURSIVE order_by_created_at(_, _)
order_by_created_at(S, descending) ==
    IF S = {} THEN <<>>
    ELSE LET first == CHOOSE c \in S : \A d \in S :
                          IF descending
                          THEN complaints[c].created_at >= complaints[d].created_at
                          ELSE complaints[c].created_at <= complaints[d].created_at
         IN <<first>> \o order_by_created_at(S \ {first}, descending)

Min(a, b) == IF a < b THEN a ELSE b

\* query.offset(skip).limit(n).all() and list[skip:skip+n], skip >= 0, n >= 0
offset_limit(rows, skip, n) == SubSeq(rows, skip + 1, Min(skip + n, Len(rows)))

clamp_page(page) == IF page < 1 THEN 1 ELSE page
clamp_page_size(page_size) ==
    IF page_size < 1 THEN 20 ELSE IF page_size > 100 THEN 100 ELSE page_size

\* ComplaintService.list_all with the urgency and date filters left at None
\* and the sort keys on created_at: <<page of ids, total_count>>
list_all(caller, status, sort, page, page_size) ==
    LET scoped == _apply_role_filter(DOMAIN complaints, caller)
        query == IF Truthy(status)
                 THEN {c \in scoped : complaints[c].status = status}
                 ELSE scoped
        rows == IF sort = "created_at" THEN order_by_created_at(query, FALSE)
                ELSE order_by_created_at(query, TRUE)
        skip == (clamp_page(page) - 1) * clamp_page_size(page_size)
    IN <<offset_limit(rows, skip, clamp_page_size(page_size)), Cardinality(query)>>

\* a slip: the quotient is rounded down
ceil_div_Floor(a, b) == a \div b

\* math.ceil(a / b) for a >= 0 and b # 0
ceil_div(a, b) == IF b > 0 THEN (a + b - 1) \div b ELSE -(a \div (-b))

\* PaginationMetadata declares has_next and has_prev as int: the booleans the
\* routers pass are stored as 1 and 0
int(b) == IF b THEN 1 ELSE 0

\* the PaginationMetadata the routers build from the request's own page and
\* page_size
pagination(page, page_size, total_count) ==
    LET total_pages == IF total_count > 0 THEN ceil_div(total_count, page_size) ELSE 1
    IN [page |-> page, page_size |-> page_size, total |-> total_count,
        pages |-> total_pages, has_next |-> int(page < total_pages),
        has_prev |-> int(page > 1)]

ViewPermissions ==
    {"view_all_complaints", "view_own_complaints", "view_department_complaints"}

\* GET /complaints/
ListComplaints(caller, status, sort, page, page_size) ==
    LET k1 == require_any_permission(caller, ViewPermissions)
        r == list_all(caller, status, sort, page, page_size)
        args == [status |-> status, sort |-> sort, page |-> page,
                 page_size |-> page_size]
    IN /\ last' = IF k1 # 200
                  THEN Response("list", caller, NoneId, args, k1, <<>>)
                  ELSE IF r[2] > 0 /\ page_size = 0
                  THEN \* ZeroDivisionError in ceil(total_count / page_size)
                       Response("list", caller, NoneId, args, 500, <<>>)
                  ELSE Response("list", caller, NoneId, args, 200,
                                [data |-> r[1],
                                 pagination |-> pagination(page, page_size, r[2])])
       /\ UNCHANGED <<users, complaints, history, tokens, now, tr, conversations, catalog, inflight>>

\* fuzz.token_set_ratio of the library fuzzywuzzy on texts given as word
\* sequences: 100 when the words of one text are among the words of the
\* other, the share of common words otherwise
Words(text) == {lower(text[i]) : i \in DOMAIN text}
token_set_ratio(a, b) ==
    IF Words(a) = {} \/ Words(b) = {} THEN 0
    ELSE IF Words(a) \subseteq Words(b) \/ Words(b) \subseteq Words(a) THEN 100
    ELSE (100 * Cardinality(Words(a) \cap Words(b)))
             \div Cardinality(Words(a) \cup Words(b))

Max(a, b) == IF a > b THEN a ELSE b

\* sort(key=score, reverse=True): stable, so equal scores keep the order of
\* the input; score is a function on the rows
RECURSIVE sort_by_score(_, _)
sort_by_score(rows, score) ==
    IF rows = <<>> THEN <<>>
    ELSE LET i == CHOOSE j \in DOMAIN rows :
                    /\ \A k \in DOMAIN rows : score[rows[j]] >= score[rows[k]]
                    /\ \A k \in 1..(j - 1) : score[rows[k]] < score[rows[j]]
             rest == [k \in 1..(Len(rows) - 1) |-> IF k < i THEN rows[k] ELSE rows[k + 1]]
         IN <<rows[i]>> \o sort_by_score(rest, score)

\* ComplaintService.search for page >= 1 and page_size >= 0; a query is a
\* sequence of words, <<>> after strip() when it is empty or only spaces;
\* base_query.all() returns the rows in primary key order
search(caller, q, page, page_size) ==
    IF q = <<>> THEN <<(<<>>), 0>>
    ELSE LET scoped == _apply_role_filter(DOMAIN complaints, caller)
             all_complaints == order_by_created_at(scoped, FALSE)
             max_score == [c \in scoped |->
                              Max(token_set_ratio(q, complaints[c].description),
                                  token_set_ratio(q, complaints[c].address))]
             IsMatch(c) == max_score[c] > 70
             matched == sort_by_score(SelectSeq(all_complaints, IsMatch), max_score)
         IN <<offset_limit(matched, (page - 1) * page_size, page_size),
              Len(matched)>>

\* GET /complaints/search
SearchComplaints(caller, q, page, page_size) ==
    LET k1 == require_any_permission(caller, ViewPermissions)
        r == search(caller, q, page, page_size)
        args == [q |-> q, page |-> page, page_size |-> page_size]
    IN /\ last' = IF k1 # 200
                  THEN Response("search", caller, NoneId, args, k1, <<>>)
                  ELSE IF r[2] > 0 /\ page_size = 0
                  THEN \* ZeroDivisionError in ceil(total_count / page_size)
                       Response("search", caller, NoneId, args, 500, <<>>)
                  ELSE Response("search", caller, NoneId, args, 200,
                                [data |-> r[1],
                                 pagination |-> pagination(page, page_size, r[2])])
       /\ UNCHANGED <<users, complaints, history, tokens, now, tr, conversations, catalog, inflight>>

\* PUT /complaints/{id}
UpdateComplaint(caller, complaint_id, data, commit_ok) ==
    LET k1 == require_complaint_access(caller, complaint_id)
        k2 == require_permission(caller, "update_complaint")
        body == ComplaintCreate(data)
        resp(k) == Response("update", caller, complaint_id, data, k, <<>>)
    IN IF k1 # 200 \/ k2 # 200
       THEN /\ last' = resp(IF k1 # 200 THEN k1 ELSE k2)
            /\ UNCHANGED <<users, complaints, history, tokens, now, tr, conversations, catalog, inflight>>
       ELSE IF ComplaintCreate_errors(data)
       THEN /\ last' = resp(422)
            /\ UNCHANGED <<users, complaints, history, tokens, now, tr, conversations, catalog, inflight>>
       ELSE IF /\ body.issue_type_id # complaints[complaint_id].issue_type_id
               /\ body.issue_type_id \notin DOMAIN issue_types
       THEN /\ last' = resp(404)
            /\ UNCHANGED <<users, complaints, history, tokens, now, tr, conversations, catalog, inflight>>
       ELSE IF ~commit_ok
       THEN /\ last' = resp(500)
            /\ UNCHANGED <<users, complaints, history, tokens, now, tr, conversations, catalog, inflight>>
       ELSE /\ complaints' = [complaints EXCEPT ![complaint_id] =
                   [@ EXCEPT !.issue_type_id = body.issue_type_id,
                             !.description = body.description,
                             !.address = body.address,
                             !.updated_at = now]]
            /\ last' = resp(200)
            /\ UNCHANGED <<users, history, tokens, now, tr, conversations, catalog, inflight>>

\* a slip: a manager's department is not compared
assign_complaint_check_AnyDepartment(caller, complaint_id, department) ==
    IF users[caller].role \notin {ADMIN, DEPARTMENT_MANAGER} THEN 403
    ELSE IF complaint_id \notin DOMAIN complaints THEN 404
    ELSE 200

\* the checks of ComplaintService.assign_complaint
assign_complaint_check(caller, complaint_id, department) ==
    IF users[caller].role \notin {ADMIN, DEPARTMENT_MANAGER} THEN 403
    ELSE IF complaint_id \notin DOMAIN complaints THEN 404
    ELSE IF /\ users[caller].role = DEPARTMENT_MANAGER
            /\ department # users[caller].department THEN 403
    ELSE 200

\* PATCH /complaints/{id}/assign
AssignComplaint(caller, complaint_id, department, commit_ok) ==
    LET k1 == require_permission(caller, "assign_complaint")
        k2 == assign_complaint_check(caller, complaint_id, department)
        resp(k) == Response("assign", caller, complaint_id, department, k, <<>>)
    IN IF k1 # 200 \/ k2 # 200
       THEN /\ last' = resp(IF k1 # 200 THEN k1 ELSE k2)
            /\ UNCHANGED <<users, complaints, history, tokens, now, tr, conversations, catalog, inflight>>
       ELSE IF ~commit_ok
       THEN /\ last' = resp(500)
            /\ UNCHANGED <<users, complaints, history, tokens, now, tr, conversations, catalog, inflight>>
       ELSE /\ complaints' = [complaints EXCEPT ![complaint_id] =
                   [@ EXCEPT !.department = department, !.updated_at = now]]
            /\ last' = resp(200)
            /\ UNCHANGED <<users, history, tokens, now, tr, conversations, catalog, inflight>>

\* GET /complaints/{id}: the route returns what require_complaint_access
\* resolved
GetComplaint(caller, complaint_id) ==
    LET code == require_complaint_access(caller, complaint_id)
    IN /\ last' = Response("get_complaint", caller, complaint_id, NoneStr, code,
                           IF code = 200 THEN complaints[complaint_id] ELSE <<>>)
       /\ UNCHANGED <<users, complaints, history, tokens, now, tr, conversations, catalog, inflight>>

(***************************************************************************)
(* routers/departments.py and routers/issue_types.py                       *)
(***************************************************************************)
\* the columns of the table departments and the fields of
\* response_model=DepartmentResponse
DepartmentColumns == {"id", "name"}
DepartmentResponse == {"id", "name", "is_active"}

\* POST /departments/: no caller is resolved.  name is unique: a second row
\* of the same name fails on commit.  The stored row has no is_active, which
\* the response model requires, so the answer after the commit is a 500.
CreateDepartment(name, commit_ok) ==
    LET id == Len(departments) + 1
        resp(k) == Response("create_department", NoneId, NoneId, name, k, <<>>)
    IN IF (\E d \in DOMAIN departments : departments[d] = name) \/ ~commit_ok
       THEN /\ last' = resp(500)
            /\ UNCHANGED <<users, complaints, history, tokens, now, tr, conversations, catalog, inflight>>
       ELSE /\ id <= MaxDepartments
            /\ departments' = Append(departments, name)
            /\ last' = resp(IF DepartmentResponse \subseteq DepartmentColumns
                            THEN 201 ELSE 500)
            /\ UNCHANGED <<users, complaints, history, tokens, now, tr,
                           conversations, issue_types, inflight>>

\* a slip: the department is not looked up
create_issue_type_check_Unchecked(department_id) == 200

\* the department lookup of create_issue_type
create_issue_type_check(department_id) ==
    IF department_id \notin DOMAIN departments THEN 404 ELSE 200

\* POST /issue-types/
CreateIssueType(name, department_id, commit_ok) ==
    LET id == Len(issue_types) + 1
        code == create_issue_type_check(department_id)
        resp(k) == Response("create_issue_type", NoneId, NoneId,
                            [name |-> name, department_id |-> department_id], k, <<>>)
    IN IF code # 200 \/ ~commit_ok
       THEN /\ last' = resp(IF code # 200 THEN code ELSE 500)
            /\ UNCHANGED <<users, complaints, history, tokens, now, tr, conversations, catalog, inflight>>
       ELSE /\ id <= MaxIssueTypes
            /\ issue_types' = Append(issue_types,
                                     [name |-> name, department_id |-> department_id])
            /\ last' = resp(201)
            /\ UNCHANGED <<users, complaints, history, tokens, now, tr,
                           conversations, departments, inflight>>

(***************************************************************************)
(* services/conversation_service.py and routers/chat.py                    *)
(***************************************************************************)
\* uuid.uuid4(): an id no session has
ConversationIds == {"c1", "c2", "c3"}
FreshConversationIds ==
    LET free == ConversationIds \ DOMAIN conversations
    IN IF free = {} THEN {} ELSE {CHOOSE c \in free : TRUE}

\* extracted_data is None until the first extraction is stored
NoData == [kind |-> "none"]

create_conversation(store, conversation_id, user_id) ==
    store @@ (conversation_id :>
                 [user_id |-> user_id, messages |-> <<>>, extracted_data |-> NoData])

add_message(store, conversation_id, role) ==
    IF conversation_id \in DOMAIN store
    THEN [store EXCEPT ![conversation_id].messages = Append(@, role)]
    ELSE store

\* a slip: the entry is removed from the store instead of updated
update_extracted_data_Drop(store, conversation_id, extracted_data) ==
    [c \in DOMAIN store \ {conversation_id} |-> store[c]]

update_extracted_data(store, conversation_id, extracted_data) ==
    IF conversation_id \in DOMAIN store
    THEN [store EXCEPT ![conversation_id].extracted_data = extracted_data]
    ELSE store

delete_conversation(store, conversation_id) ==
    [c \in DOMAIN store \ {conversation_id} |-> store[c]]

\* what the generative model answers: a parsed extraction (confidence in
\* tenths), or a failure of the call
AiError == [kind |-> "error"]
Extraction(issue_type, confidence, needs_clarification) ==
    [kind |-> "extraction", issue_type |-> issue_type, confidence |-> confidence,
     needs_clarification |-> needs_clarification,
     description |-> <<"garbage", "overflowing">>,
     address |-> <<"main", "street">>]

\* a slip: every extraction goes on to complaint creation
needs_more_Never(extracted) == FALSE

\* steps 4 and 5 of send_chat_message: the turn ends with a question when
\* clarification is needed or the confidence is below 0.7
needs_more(extracted) ==
    extracted.needs_clarification \/ extracted.confidence < 7

\* IssueType.name.ilike('%name%').first(), then the row named "Other", then
\* id 1; the names of the model contain one another only when they are equal
resolve_issue_type(name) ==
    LET like == {i \in DOMAIN issue_types : lower(issue_types[i].name) = lower(name)}
        other == {i \in DOMAIN issue_types : issue_types[i].name = "Other"}
        least(S) == CHOOSE i \in S : \A j \in S : i <= j
    IN IF like # {} THEN least(like)
       ELSE IF other # {} THEN least(other)
       ELSE 1

\* a slip: the owner of the conversation is not compared with the caller
conversation_check_AnyOwner(caller, conversation_id) ==
    IF ~Truthy(conversation_id) THEN 200
    ELSE IF conversation_id \notin DOMAIN conversations THEN 404
    ELSE 200

\* step 1 of send_chat_message for a request that names a conversation:
\* NotFoundError, ForbiddenError, or go on
conversation_check(caller, conversation_id) ==
    IF ~Truthy(conversation_id) THEN 200
    ELSE IF conversation_id \notin DOMAIN conversations THEN 404
    ELSE IF conversations[conversation_id].user_id # caller THEN 403
    ELSE 200

\* a slip: the complaint is stored and its conversation stays in the store
ChatMessage_KeepsConversation(caller, conversation_id, ai, commit_ok) ==
    LET resp(k, id) == Response("chat", caller, id, conversation_id, k, ai)
        isNew == ~Truthy(conversation_id)
    IN IF conversation_check(caller, conversation_id) # 200
       THEN /\ last' = resp(conversation_check(caller, conversation_id), NoneId)
            /\ UNCHANGED <<users, complaints, history, tokens, now, tr, conversations, catalog, inflight>>
       ELSE \E fresh \in (IF isNew THEN FreshConversationIds ELSE {conversation_id}) :
            LET cid == IF isNew THEN fresh ELSE conversation_id
                s0 == IF isNew THEN create_conversation(conversations, cid, caller)
                      ELSE conversations
                s1 == add_message(s0, cid, "user")
                first == s1[cid].extracted_data.kind = "none"
                extracted == IF ai.kind = "error" THEN s1[cid].extracted_data ELSE ai
                s2 == update_extracted_data(s1, cid, extracted)
                data == [issue_type_id |-> resolve_issue_type(extracted.issue_type),
                         description |-> extracted.description,
                         address |-> extracted.address]
                row == create_row(caller, data)
            IN /\ Cardinality(DOMAIN s1) <= MaxConversations
               /\ Len(s1[cid].messages) <= MaxMessages
               /\ UNCHANGED <<users, history, tokens, now, tr, catalog, inflight>>
               /\ IF first /\ ai.kind = "error"
                  THEN \* extract_complaint_info raised: HTTPException(500)
                       /\ conversations' = s1
                       /\ last' = resp(500, NoneId)
                       /\ UNCHANGED complaints
                  ELSE IF needs_more(extracted)
                  THEN /\ conversations' = add_message(s2, cid, "assistant")
                       /\ last' = resp(200, NoneId)
                       /\ UNCHANGED complaints
                  ELSE IF \/ data.issue_type_id \notin DOMAIN issue_types
                          \/ ~commit_ok
                  THEN \* ComplaintService.create raised: HTTPException(500)
                       /\ conversations' = s2
                       /\ last' = resp(500, NoneId)
                       /\ UNCHANGED complaints
                  ELSE /\ complaints' = complaints @@
                              (NextComplaintId :> [row EXCEPT !.submitted_by = caller])
                       /\ conversations' = s2
                       /\ last' = resp(200, NextComplaintId)

\* POST /chat/message; conversation_id is NoneStr for a new conversation, ai is
\* the model's answer in this turn
ChatMessage(caller, conversation_id, ai, commit_ok) ==
    LET resp(k, id) == Response("chat", caller, id, conversation_id, k, ai)
        isNew == ~Truthy(conversation_id)
    IN IF conversation_check(caller, conversation_id) # 200
       THEN /\ last' = resp(conversation_check(caller, conversation_id), NoneId)
            /\ UNCHANGED <<users, complaints, history, tokens, now, tr, conversations, catalog, inflight>>
       ELSE \E fresh \in (IF isNew THEN FreshConversationIds ELSE {conversation_id}) :
            LET cid == IF isNew THEN fresh ELSE conversation_id
                s0 == IF isNew THEN create_conversation(conversations, cid, caller)
                      ELSE conversations
                s1 == add_message(s0, cid, "user")
                first == s1[cid].extracted_data.kind = "none"
                extracted == IF ai.kind = "error" THEN s1[cid].extracted_data ELSE ai
                s2 == update_extracted_data(s1, cid, extracted)
                data == [issue_type_id |-> resolve_issue_type(extracted.issue_type),
                         description |-> extracted.description,
                         address |-> extracted.address]
                row == create_row(caller, data)
            IN /\ Cardinality(DOMAIN s1) <= MaxConversations
               /\ Len(s1[cid].messages) <= MaxMessages
               /\ UNCHANGED <<users, history, tokens, now, tr, catalog, inflight>>
               /\ IF first /\ ai.kind = "error"
                  THEN \* extract_complaint_info raised: HTTPException(500)
                       /\ conversations' = s1
                       /\ last' = resp(500, NoneId)
                       /\ UNCHANGED complaints
                  ELSE IF needs_more(extracted)
                  THEN /\ conversations' = add_message(s2, cid, "assistant")
                       /\ last' = resp(200, NoneId)
                       /\ UNCHANGED complaints
                  ELSE IF \/ data.issue_type_id \notin DOMAIN issue_types
                          \/ NotNullViolation(row) \/ ~commit_ok
                  THEN \* ComplaintService.create raised: HTTPException(500)
                       /\ conversations' = s2
                       /\ last' = resp(500, NoneId)
                       /\ UNCHANGED complaints
                  ELSE /\ complaints' = complaints @@ (NextComplaintId :> row)
                       /\ conversations' = delete_conversation(s2, cid)
                       /\ last' = resp(200, NextComplaintId)

(***************************************************************************)
(* core/config.py, core/security.py, deps.py                               *)
(***************************************************************************)
SECRET_KEY == "change-me"
ACCESS_TOKEN_EXPIRE_MINUTES == 15
OTP_EXPIRE_MINUTES == 5
LOCK_MINUTES == 15
MAX_FAILED_ATTEMPTS == 5

\* jwt.encode of the claims with the expiry added, signed with the key
create_access_token(data) ==
    [payload |-> data @@ ("exp" :> now + ACCESS_TOKEN_EXPIRE_MINUTES),
     key |-> SECRET_KEY]

JWTError == [error |-> "JWTError"]

\* jwt.decode checks the signature and the expiry; then user_id must be there
verify_token(token) ==
    IF token.key # SECRET_KEY THEN JWTError
    ELSE IF token.payload["exp"] < now THEN JWTError
    ELSE IF "user_id" \notin DOMAIN token.payload THEN JWTError
    ELSE token.payload

\* get_current_user: <<status code, id of the user it resolves to>>
get_current_user(token) ==
    LET payload == verify_token(token)
    IN IF payload = JWTError THEN <<401, NoneId>>
       ELSE IF "sub" \notin DOMAIN payload THEN <<401, NoneId>>
       ELSE IF payload["sub"] \notin DOMAIN users THEN <<401, NoneId>>
       ELSE <<200, payload["sub"]>>

\* the dependency of every protected route, run on the presented token
Authenticate(token) ==
    LET r == get_current_user(token)
    IN /\ last' = Response("authenticate", NoneId, NoneId, token, r[1], r[2])
       /\ UNCHANGED <<users, complaints, history, tokens, now, tr, conversations, catalog, inflight>>

\* pyotp.TOTP(secret).now() and .verify(code, valid_window=1): a code is good
\* for about a minute around the time it was generated at
get_otp_code(secret) == <<secret, now>>
verify_otp(secret, otp_code) == otp_code = <<secret, now>>

(***************************************************************************)
(* models/users.py, routers/auth.py, services/auth_service.py              *)
(***************************************************************************)
UserColumns ==
    {"id", "full_name", "email", "hashed_password", "is_verified",
     "failed_login_attempts", "login_locked_until", "role", "department",
     "otp_secret", "otp_expires_at", "failed_otp_attempts", "otp_locked_until",
     "created_at", "updated_at"}

\* db.query(User).filter(User.<column> == value).first() for the columns the
\* handlers filter on: the id of the row, NoneId for no row; naming a column
\* the model does not have raises AttributeError
AttributeError == -1
\* a slip: the lookup never finds a row
query_user_by_Blind(column, value) ==
    IF column \notin UserColumns THEN AttributeError ELSE NoneId

query_user_by(column, value) ==
    IF column \notin UserColumns THEN AttributeError
    ELSE LET found == {u \in DOMAIN users : users[u].email = value}
         IN IF found = {} THEN NoneId ELSE CHOOSE u \in found : TRUE

\* a lock test that never finds the account locked
Locked_Never(until) == FALSE

Locked(until) == until # NoTime /\ now < until

\* the fields of response_model=MessageResponse
MessageResponse == {"message", "email"}

\* POST /auth/signup/
Signup(email, password) ==
    LET id == Len(users) + 1
        resp(k) == Response("signup", NoneId, NoneId, email, k, <<>>)
    IN IF query_user_by("email", email) # NoneId
       THEN /\ last' = resp(409)
            /\ UNCHANGED <<users, complaints, history, tokens, now, tr, conversations, catalog, inflight>>
       ELSE /\ Len(users) < MaxUsers
            /\ users' = Append(users, NewUser(email, password, USER, NoneStr))
            /\ last' = resp(200)
            /\ UNCHANGED <<complaints, history, tokens, now, tr, conversations, catalog, inflight>>

\* POST /auth/send-otp/: AuthService.send_otp filters on User.phone_number;
\* otp_secret is what generate_otp_secret() draws
SendOtp(email, otp_secret) ==
    LET u == query_user_by("phone_number", email)
        resp(k) == Response("send_otp", NoneId, NoneId, email, k, <<>>)
    IN IF u = AttributeError
       THEN \* except Exception: HTTPException(500)
            /\ last' = resp(500)
            /\ UNCHANGED <<users, complaints, history, tokens, now, tr, conversations, catalog, inflight>>
       ELSE IF u = NoneId
       THEN /\ last' = resp(404)
            /\ UNCHANGED <<users, complaints, history, tokens, now, tr, conversations, catalog, inflight>>
       ELSE IF Locked(users[u].otp_locked_until)
       THEN /\ last' = resp(429)
            /\ UNCHANGED <<users, complaints, history, tokens, now, tr, conversations, catalog, inflight>>
       ELSE /\ users' = [users EXCEPT ![u] =
                   [@ EXCEPT !.otp_secret = otp_secret,
                             !.otp_expires_at = now + OTP_EXPIRE_MINUTES,
                             !.failed_otp_attempts = 0,
                             !.otp_locked_until = NoTime]]
            \* the service answers {message, phone_number}
            /\ last' = resp(IF MessageResponse \subseteq {"message", "phone_number"}
                            THEN 200 ELSE 500)
            /\ UNCHANGED <<complaints, history, tokens, now, tr, conversations, catalog, inflight>>

\* POST /auth/verify-otp/: AuthService.verify_otp filters on User.phone_number
VerifyOtp(email, otp_code) ==
    LET u == query_user_by("phone_number", email)
        resp(k) == Response("verify_otp", NoneId, NoneId,
                            [email |-> email, otp_code |-> otp_code], k, <<>>)
        same == UNCHANGED <<users, complaints, history, tokens, now, tr, conversations, catalog, inflight>>
    IN IF u = AttributeError THEN last' = resp(500) /\ same
       ELSE IF u = NoneId THEN last' = resp(404) /\ same
       ELSE IF Locked(users[u].otp_locked_until) THEN last' = resp(429) /\ same
       ELSE IF ~Truthy(users[u].otp_secret) THEN last' = resp(401) /\ same
       ELSE IF now > users[u].otp_expires_at THEN last' = resp(401) /\ same
       ELSE IF ~verify_otp(users[u].otp_secret, otp_code)
       THEN LET n == users[u].failed_otp_attempts + 1
            IN /\ users' = [users EXCEPT ![u] =
                      [@ EXCEPT !.failed_otp_attempts = n,
                                !.otp_locked_until =
                                    IF n >= MAX_FAILED_ATTEMPTS
                                    THEN now + LOCK_MINUTES ELSE @]]
               /\ last' = resp(IF n >= MAX_FAILED_ATTEMPTS THEN 429 ELSE 401)
               /\ UNCHANGED <<complaints, history, tokens, now, tr, conversations, catalog, inflight>>
       ELSE /\ users' = [users EXCEPT ![u] =
                   [@ EXCEPT !.otp_secret = NoneStr, !.otp_expires_at = NoTime,
                             !.failed_otp_attempts = 0,
                             !.otp_locked_until = NoTime,
                             !.is_verified = TRUE]]
            /\ Cardinality(tokens \cup {create_access_token("user_id" :> u)})
                   <= MaxTokens
            /\ tokens' = tokens \cup {create_access_token("user_id" :> u)}
            \* the service answers {access_token, token_type}
            /\ last' = resp(IF MessageResponse \subseteq {"access_token", "token_type"}
                            THEN 200 ELSE 500)
            /\ UNCHANGED <<complaints, history, now, tr, conversations, catalog, inflight>>

\* POST /auth/login/
Login(email, password) ==
    LET u == query_user_by("email", email)
        resp(k, t) == Response("login", NoneId, NoneId,
                               [email |-> email, password |-> password], k, t)
        same == UNCHANGED <<users, complaints, history, tokens, now, tr, conversations, catalog, inflight>>
    IN IF u = NoneId THEN last' = resp(401, <<>>) /\ same
       ELSE IF Locked(users[u].login_locked_until) THEN last' = resp(429, <<>>) /\ same
       ELSE IF ~users[u].is_verified THEN last' = resp(403, <<>>) /\ same
       ELSE IF ~verify_password(password, users[u].hashed_password)
       THEN LET n == users[u].failed_login_attempts + 1
            IN /\ users' = [users EXCEPT ![u] =
                      [@ EXCEPT !.failed_login_attempts = n,
                                !.login_locked_until =
                                    IF n >= MAX_FAILED_ATTEMPTS
                                    THEN now + LOCK_MINUTES ELSE @]]
               /\ last' = resp(IF n >= MAX_FAILED_ATTEMPTS THEN 429 ELSE 401, <<>>)
               /\ UNCHANGED <<complaints, history, tokens, now, tr, conversations, catalog, inflight>>
       ELSE LET access_token == create_access_token("user_id" :> u)
            IN /\ Cardinality(tokens \cup {access_token}) <= MaxTokens
               /\ users' = [users EXCEPT ![u] =
                      [@ EXCEPT !.failed_login_attempts = 0,
                                !.login_locked_until = NoTime]]
               /\ tokens' = tokens \cup {access_token}
               /\ last' = resp(200, access_token)
               /\ UNCHANGED <<complaints, history, now, tr, conversations, catalog, inflight>>

\* str.strip() on the department strings the requests carry
Blank == "  "
strip(v) == IF v = Blank THEN "" ELSE v

\* a slip: the validator lets every department through
validate_department_Lax(role, v) == v

\* the validator of UserCreate.department and UserRoleUpdate.department: the
\* cleaned value, or ValidationError
validate_department(role, v) ==
    IF role = DEPARTMENT_MANAGER /\ ~Truthy(v) THEN ValidationError
    ELSE IF v # NoneStr /\ ~Truthy(strip(v)) THEN ValidationError
    ELSE IF v # NoneStr THEN strip(v) ELSE v

\* POST /users/: UserService.create. User(**data.dict()) passes phone_number
\* and residential_address, which User does not declare, and no
\* hashed_password: the constructor raises TypeError inside the try block and
\* the handler answers 500 after the rollback.
CreateUser(caller, data) ==
    LET resp(k) == Response("create_user", caller, NoneId, data, k, <<>>)
        v == validate_department(data.role, data.department)
    IN /\ last' = resp(IF v = ValidationError THEN 422
                       ELSE IF users[caller].role # ADMIN THEN 403
                       ELSE IF query_user_by("email", data.email) # NoneId THEN 400
                       ELSE IF data.role = DEPARTMENT_MANAGER /\ ~Truthy(v)
                            THEN 400
                       ELSE 500)
       /\ UNCHANGED <<users, complaints, history, tokens, now, tr, conversations, catalog, inflight>>

\* the fields of response_model=UserResponse
UserResponse ==
    {"full_name", "phone_number", "email", "residential_address", "id", "role",
     "department", "is_verified", "created_at", "updated_at"}

\* a slip: the caller's role is not tested
update_user_role_check_AnyCaller(caller, target_user_id, new_role, new_department) ==
    IF target_user_id \notin DOMAIN users THEN 404
    ELSE IF new_role = DEPARTMENT_MANAGER /\ ~Truthy(new_department) THEN 400
    ELSE 200

\* the checks of UserService.update_user_role before the try block
update_user_role_check(caller, target_user_id, new_role, new_department) ==
    IF users[caller].role # ADMIN THEN 403
    ELSE IF target_user_id \notin DOMAIN users THEN 404
    ELSE IF new_role = DEPARTMENT_MANAGER /\ ~Truthy(new_department) THEN 400
    ELSE 200

\* PATCH /users/{user_id}/role: UserRoleUpdate is validated, then
\* UserService.update_user_role runs.  The row is committed before the
\* response model is applied; UserResponse requires phone_number and
\* residential_address, which User does not have, so the answer is a 500.
UpdateUserRole(caller, target_user_id, new_role, new_department, commit_ok) ==
    LET resp(k) == Response("update_user_role", caller, target_user_id,
                            [role |-> new_role, department |-> new_department],
                            k, <<>>)
        v == validate_department(new_role, new_department)
        same == UNCHANGED <<users, complaints, history, tokens, now, tr, conversations, catalog, inflight>>
    IN IF v = ValidationError THEN last' = resp(422) /\ same
       ELSE IF update_user_role_check(caller, target_user_id, new_role, v) # 200
       THEN last' = resp(update_user_role_check(caller, target_user_id, new_role, v))
            /\ same
       ELSE IF ~commit_ok THEN last' = resp(500) /\ same
       ELSE /\ users' = [users EXCEPT ![target_user_id] =
                   [@ EXCEPT !.role = new_role,
                             !.department = IF Truthy(v) THEN v ELSE @]]
            /\ last' = resp(IF UserResponse \subseteq UserColumns THEN 200 ELSE 500)
            /\ UNCHANGED <<complaints, history, tokens, now, tr, conversations, catalog, inflight>>

\* datetime.utcnow() moves on
ClockStep == 5
Tick ==
    /\ now + ClockStep <= MaxTime
    /\ now' = now + ClockStep
    /\ last' = Response("tick", NoneId, NoneId, NoneStr, 0, <<>>)
    /\ UNCHANGED <<users, complaints, history, tokens, tr, conversations, catalog, inflight>>

(***************************************************************************)
(* Evaluation of the transition helpers on arbitrary strings.              *)
(***************************************************************************)
StatusStrings ==
    ComplaintStatus \cup
    {"PENDING", "Assigned", "IN_PROGRESS", "Resolved", "CLOSED", "Rejected",
     "open", "OPEN", "done", ""}

CheckTransition(cur, new, role) ==
    /\ tr' = [op |-> "checked", current |-> cur, new |-> new, role |-> role,
              valid |-> is_valid_transition(cur, new),
              can |-> can_transition_status(cur, new, role),
              allowed |-> get_allowed_transitions(cur, role)]
    /\ UNCHANGED <<users, complaints, history, tokens, now, last, conversations, catalog, inflight>>

InitEnum ==
    /\ users = SeedUsers
    /\ complaints = <<>>
    /\ history = <<>>
    /\ tokens = {}
    /\ now = 1
    /\ last = NoRequest
    /\ tr = NoCheck
    /\ conversations = <<>>
    /\ inflight = <<>>
    /\ departments = SeedDepartments
    /\ issue_types = SeedIssueTypes

NextEnum == \E cur \in StatusStrings, new \in StatusStrings, role \in UserRole :
                CheckTransition(cur, new, role)

SpecEnum == InitEnum /\ [][NextEnum]_vars

(***************************************************************************)
(* The complaint lifecycle: one filed complaint and the requests on it.    *)
(***************************************************************************)
Garbage == [issue_type_id |-> 1, description |-> <<"garbage", "overflowing">>,
            address |-> <<"main", "street">>]
Pothole == [issue_type_id |-> 2, description |-> <<"pothole", "on", "road">>,
            address |-> <<"station", "road">>]
NoSuchType == [issue_type_id |-> 9, description |-> <<"pothole", "on", "road">>,
               address |-> <<"station", "road">>]

\* the request bodies of PATCH /complaints/{id}/status
StatusRequests ==
    {[new_status |-> "assigned", comment |-> NoneStr],
     [new_status |-> "ASSIGNED", comment |-> NoneStr],
     [new_status |-> "in_progress", comment |-> NoneStr],
     [new_status |-> "resolved", comment |-> "fixed"],
     [new_status |-> "closed", comment |-> NoneStr],
     [new_status |-> "rejected", comment |-> NoneStr],
     [new_status |-> "pending", comment |-> NoneStr],
     [new_status |-> "open", comment |-> NoneStr]}

\* <<caller, complaint id, body>>: the administrator (user 1) sends every
\* body for complaint 1 and one for complaint 2, which does not exist; user 3,
\* a citizen who did not file complaint 1, asks to assign and to close it
StatusTargets ==
    {<<1, 1, r>> : r \in StatusRequests}
    \cup {<<1, 2, [new_status |-> "assigned", comment |-> NoneStr]>>}
    \cup {<<3, 1, r>> : r \in {q \in StatusRequests :
                                  q.new_status \in {"assigned", "closed"}}}

Callers == {1, 3}

Init ==
    /\ users = SeedUsers
    /\ complaints = (1 :> NewComplaint(4, 4, Garbage, 1))
    /\ history = <<>>
    /\ tokens = {}
    /\ now = 1
    /\ last = NoRequest
    /\ tr = NoCheck
    /\ conversations = <<>>
    /\ inflight = <<>>
    /\ departments = SeedDepartments
    /\ issue_types = SeedIssueTypes

Next ==
    \/ \E t \in StatusTargets, ok \in BOOLEAN :
           ChangeStatus(t[1], t[2], t[3].new_status, t[3].comment, NoneStr, ok)
    \/ \E t \in {<<1, 3>>, <<1, 9>>, <<3, 3>>} :
           AssignToOfficer(t[1], 1, t[2], TRUE)
    \/ \E caller \in Callers, d \in {Sanitation, Roads} :
           AssignComplaint(caller, 1, d, TRUE)
    \/ \E caller \in Callers, data \in {Pothole, NoSuchType} :
           UpdateComplaint(caller, 1, data, TRUE)
    \/ \E caller \in Callers, data \in {Garbage, NoSuchType} :
           CreateComplaint(caller, data, TRUE)
    \/ \E ai \in {Extraction("Sanitation", 9, FALSE), Extraction("Other", 3, TRUE),
                  AiError} :
           ChatMessage(3, NoneStr, ai, TRUE)

Spec == Init /\ [][Next]_vars

(***************************************************************************)
(* Listing and searching: three filed complaints of two citizens, the      *)
(* departments they are assigned to, and the queries of every caller.      *)
(***************************************************************************)
(***************************************************************************)
(* middleware/error_handler.py: the body of a failure response             *)
(***************************************************************************)
\* the exception classes a failure of an operation is raised as: the custom
\* classes in routers/chat.py, request validation for 422, an exception no
\* handler of the route catches (a division by zero in the list and search
\* routes, a response that does not fit its response_model), and
\* fastapi.HTTPException everywhere else
raised_as(op, code) ==
    IF code = 422 THEN {"RequestValidationError"}
    ELSE IF op = "chat" /\ code \in {403, 404} THEN {"ComplaintPortalException"}
    ELSE IF op \in {"list", "search"} /\ code = 500 THEN {"Exception"}
    ELSE IF op \in {"update_user_role", "create_department"} /\ code = 500
         THEN {"HTTPException", "Exception"}
    ELSE {"HTTPException"}

\* the JSON fields the handler of an exception class writes;
\* setup_exception_handlers registers none for HTTPException, which leaves
\* the framework's own handler and its body {"detail": ...}
error_body(class) ==
    IF class = "HTTPException" THEN {"detail"}
    ELSE IF class = "RequestValidationError"
         THEN {"detail", "error_code", "errors", "path"}
    ELSE {"detail", "error_code", "path"}

(***************************************************************************)
(* The catalogue: departments and issue types are added while complaints   *)
(* are filed and edited.                                                   *)
(***************************************************************************)
Parks == "Parks"
ParkBench == [issue_type_id |-> 3, description |-> <<"broken", "bench">>,
              address |-> <<"main", "street">>]

InitCatalog ==
    /\ users = SeedUsers
    /\ complaints = (1 :> NewComplaint(4, 4, Garbage, 1))
    /\ history = <<>>
    /\ tokens = {}
    /\ now = 1
    /\ last = NoRequest
    /\ tr = NoCheck
    /\ conversations = <<>>
    /\ inflight = <<>>
    /\ departments = SeedDepartments
    /\ issue_types = SeedIssueTypes

NextCatalog ==
    \/ \E name \in {Parks, Roads}, ok \in BOOLEAN : CreateDepartment(name, ok)
    \/ \E department_id \in {3, 7}, ok \in BOOLEAN :
           CreateIssueType("Parks", department_id, ok)
    \/ \E data \in {Garbage, ParkBench, NoSuchType} : CreateComplaint(3, data, TRUE)
    \/ \E data \in {ParkBench, NoSuchType} : UpdateComplaint(1, 1, data, TRUE)
    \/ Tick

SpecCatalog == InitCatalog /\ [][NextCatalog]_vars

(***************************************************************************)
(* User management: signup, admin user-create and role updates.            *)
(***************************************************************************)
UserRequests ==
    {[email |-> "fresh@x", role |-> DEPARTMENT_MANAGER, department |-> Roads],
     [email |-> "fresh@x", role |-> DEPARTMENT_MANAGER, department |-> NoneStr],
     [email |-> "fresh@x", role |-> ADMIN, department |-> NoneStr],
     [email |-> "a@x", role |-> USER, department |-> NoneStr]}

InitUsers ==
    /\ users = SeedUsers
    /\ complaints = <<>>
    /\ history = <<>>
    /\ tokens = {}
    /\ now = 1
    /\ last = NoRequest
    /\ tr = NoCheck
    /\ conversations = <<>>
    /\ inflight = <<>>
    /\ departments = SeedDepartments
    /\ issue_types = SeedIssueTypes

NextUsers ==
    \/ Signup("new@x", "pw5")
    \/ \E caller \in {1, 2, 3}, data \in UserRequests : CreateUser(caller, data)
    \/ \E caller \in {1, 2, 3}, target \in {2, 3, 9}, role \in UserRole,
          department \in {NoneStr, Roads, Blank}, ok \in BOOLEAN :
           UpdateUserRole(caller, target, role, department, ok)

SpecUsers == InitUsers /\ [][NextUsers]_vars

(***************************************************************************)
(* Chat: two citizens, new conversations and follow-ups.                   *)
(***************************************************************************)
AiAnswers ==
    {Extraction("Sanitation", 9, FALSE), Extraction("Sanitation", 7, FALSE),
     Extraction("Sanitation", 6, FALSE), Extraction("Roads", 9, TRUE), AiError}

InitChat ==
    /\ users = SeedUsers
    /\ complaints = (1 :> NewComplaint(4, 4, Pothole, 1))
    /\ history = <<>>
    /\ tokens = {}
    /\ now = 1
    /\ last = NoRequest
    /\ tr = NoCheck
    /\ conversations = <<>>
    /\ inflight = <<>>
    /\ departments = SeedDepartments
    /\ issue_types = SeedIssueTypes

NextChat ==
    \E caller \in {3, 4}, conversation_id \in {NoneStr, "c1", "zz"},
       ai \in AiAnswers :
        ChatMessage(caller, conversation_id, ai, TRUE)

SpecChat == InitChat /\ [][NextChat]_vars

QueryCallers == {1, 2, 3, 4}

\* the query strings of GET /complaints/
ListRequests ==
    {[status |-> NoneStr, sort |-> "created_at", page |-> 1, page_size |-> 1],
     [status |-> NoneStr, sort |-> "created_at", page |-> 2, page_size |-> 1],
     [status |-> NoneStr, sort |-> "created_at", page |-> 3, page_size |-> 1],
     [status |-> NoneStr, sort |-> "-created_at", page |-> 1, page_size |-> 2],
     [status |-> NoneStr, sort |-> "-created_at", page |-> 2, page_size |-> 2],
     [status |-> NoneStr, sort |-> "-created_at", page |-> 0, page_size |-> 0],
     [status |-> NoneStr, sort |-> "-created_at", page |-> 3, page_size |-> 2],
     [status |-> NoneStr, sort |-> "created_at", page |-> 1, page_size |-> 100],
     [status |-> NoneStr, sort |-> "created_at", page |-> 1, page_size |-> 101],
     [status |-> PENDING, sort |-> "created_at", page |-> 1, page_size |-> 2]}

\* the query strings of GET /complaints/search
SearchRequests ==
    {[q |-> <<"garbage">>, page |-> 1, page_size |-> 2],
     [q |-> <<"station", "road">>, page |-> 1, page_size |-> 1],
     [q |-> <<"station", "road">>, page |-> 2, page_size |-> 1],
     [q |-> <<>>, page |-> 1, page_size |-> 1]}

InitQuery ==
    /\ users = SeedUsers
    /\ complaints = (1 :> NewComplaint(3, 3, Garbage, 1))
                    @@ (2 :> NewComplaint(4, 4, Pothole, 2))
                    @@ (3 :> NewComplaint(3, 3, Pothole, 3))
    /\ history = <<>>
    /\ tokens = {}
    /\ now = 4
    /\ last = NoRequest
    /\ tr = NoCheck
    /\ conversations = <<>>
    /\ inflight = <<>>
    /\ departments = SeedDepartments
    /\ issue_types = SeedIssueTypes

NextQuery ==
    \/ \E caller \in QueryCallers, r \in ListRequests :
           ListComplaints(caller, r.status, r.sort, r.page, r.page_size)
    \/ \E caller \in QueryCallers, r \in SearchRequests :
           SearchComplaints(caller, r.q, r.page, r.page_size)
    \/ \E caller \in {1, 2, 3}, id \in {1, 2, 3}, d \in {Sanitation, Roads} :
           AssignComplaint(caller, id, d, TRUE)
    \/ ChangeStatus(1, 2, ASSIGNED, NoneStr, NoneStr, TRUE)
    \/ \E caller \in QueryCallers, id \in {1, 2, 9} :
           GetStatusHistory(caller, id)
    \/ \E caller \in QueryCallers, id \in {1, 2, 9} :
           GetComplaint(caller, id)

SpecQuery == InitQuery /\ [][NextQuery]_vars

(***************************************************************************)
(* Accounts: signing up, verifying, logging in and presenting tokens.      *)
(***************************************************************************)
\* a token no handler issued: the sub claim, signed with another key
Forged ==
    [payload |-> ("sub" :> 1) @@ ("user_id" :> 1) @@ ("exp" :> MaxTime),
     key |-> "guess"]

InitAuth ==
    /\ users = SeedUsers
    /\ complaints = <<>>
    /\ history = <<>>
    /\ tokens = {}
    /\ now = 1
    /\ last = NoRequest
    /\ tr = NoCheck
    /\ conversations = <<>>
    /\ inflight = <<>>
    /\ departments = SeedDepartments
    /\ issue_types = SeedIssueTypes

NextAuth ==
    \/ \E email \in {"new@x", "a@x"} : Signup(email, "pw5")
    \/ \E email \in {"new@x", "nobody@x"}, secret \in {"s1"} :
           SendOtp(email, secret)
    \/ \E email \in {"new@x"}, otp_code \in {<<"s1", 1>>, <<"s1", 6>>} :
           VerifyOtp(email, otp_code)
    \/ \E email \in {"a@x", "new@x", "nobody@x"}, password \in {"pw3", "pw5"} :
           Login(email, password)
    \/ \E token \in tokens \cup {Forged} : Authenticate(token)
    \/ \E caller \in {1, 3}, email \in {"new@x", "fresh@x"} :
           CreateUser(caller, [email |-> email, role |-> USER,
                               department |-> NoneStr])
    \/ Tick

SpecAuth == InitAuth /\ [][NextAuth]_vars

(***************************************************************************)
(* Claims.                                                                 *)
(***************************************************************************)
\* the eight pairs of the transition table
TablePairs ==
    {<<"pending", "assigned">>, <<"pending", "rejected">>,
     <<"assigned", "in_progress">>, <<"assigned", "rejected">>,
     <<"in_progress", "resolved">>, <<"in_progress", "assigned">>,
     <<"resolved", "closed">>, <<"resolved", "in_progress">>}

\* the spellings of a status name that differ from it in letter case only
Spellings(s) ==
    CASE s = "pending" -> {"pending", "PENDING", "Pending"}
      [] s = "assigned" -> {"assigned", "ASSIGNED", "Assigned"}
      [] s = "in_progress" -> {"in_progress", "IN_PROGRESS", "In_Progress"}
      [] s = "resolved" -> {"resolved", "RESOLVED", "Resolved"}
      [] s = "closed" -> {"closed", "CLOSED", "Closed"}
      [] s = "rejected" -> {"rejected", "REJECTED", "Rejected"}

InTable(cur, new) ==
    \E p \in TablePairs : cur \in Spellings(p[1]) /\ new \in Spellings(p[2])

\* C1: the validity check is true for (current, target) exactly when the pair,
\* in any letter case, is one of the eight table pairs, and false for every
\* other pair and for unrecognised names; the role-aware check of enums.py
\* agrees with it for the roles that may drive every transition.
C1_TransitionTable ==
    tr.op = "checked" =>
        /\ tr.valid = InTable(tr.current, tr.new)
        /\ tr.role \in {ADMIN, DEPARTMENT_MANAGER} =>
               tr.can = InTable(tr.current, tr.new)

\* a table pair given in upper case is accepted and an unknown name refused
C1_Witness ==
    /\ tr.op = "checked"
    /\ tr.current = "PENDING"
    /\ tr.new = "Assigned"
    /\ tr.valid
    /\ tr.can
    /\ ~is_valid_transition("open", "assigned")

\* the step answered a status-change request
StatusStep == last'.op = "change_status" /\ last'.cid \in DOMAIN complaints

\* C2: a status-change request on an existing complaint whose (current status,
\* requested status) pair is not in the transition table is answered 400,
\* appends no history row and leaves the complaint (every stored complaint)
\* unchanged.
C2_InvalidTransitionRefused ==
    [][(StatusStep /\ ~InTable(complaints[last'.cid].status, last'.arg))
          => /\ last'.code = 400
             /\ history' = history
             /\ complaints' = complaints]_vars

\* a pending complaint was asked to close, was refused, and is still pending
\* with no history
C2_Witness ==
    /\ last.op = "change_status"
    /\ last.cid = 1
    /\ last.arg = "closed"
    /\ last.code = 400
    /\ complaints[1].status = "pending"
    /\ history = <<>>

\* the history rows of one complaint, oldest first
rows_of(id) == SelectSeq(history, LAMBDA r : r.complaint_id = id)

\* C3: a successful status change appends exactly one history row, whose
\* old_status is the status the complaint had before the call and whose
\* new_status is the requested state (in its stored, lower-case spelling); no
\* other step adds a row; and a complaint that has rows has the status its
\* most recent row names, the rows chaining from the status it was filed with.
C3_OneRowPerChange ==
    [][/\ (StatusStep /\ last'.code = 200)
            => /\ Len(history') = Len(history) + 1
               /\ SubSeq(history', 1, Len(history)) = history
               /\ history'[Len(history')].complaint_id = last'.cid
               /\ history'[Len(history')].old_status = complaints[last'.cid].status
               /\ history'[Len(history')].new_status = lower(last'.arg)
       /\ ~(StatusStep /\ last'.code = 200) => history' = history
       /\ \A id \in DOMAIN complaints' :
              LET rows == rows_of(id)'
              IN /\ rows # <<>> => complaints'[id].status = rows[Len(rows)].new_status
                 /\ \A i \in 1..Len(rows) :
                        rows[i].old_status =
                            IF i = 1 THEN PENDING ELSE rows[i - 1].new_status
      ]_vars

\* four successful changes left four rows and the status of the last one
C3_Witness ==
    /\ Len(rows_of(1)) = 4
    /\ rows_of(1)[4].new_status = "closed"
    /\ rows_of(1)[4].old_status = "resolved"
    /\ complaints[1].status = "closed"
    /\ last.op = "change_status"
    /\ last.code = 200

\* C4: over status changes, officer assignments, department assignments,
\* updates and chat intake, every stored status is one of the six defined
\* states and every change of a stored status is a pair of the transition table.
C4_StatusInTable ==
    [][\A id \in DOMAIN complaints' :
          /\ complaints'[id].status \in ComplaintStatus
          /\ (id \in DOMAIN complaints
              /\ complaints'[id].status # complaints[id].status)
                 => <<complaints[id].status, complaints'[id].status>> \in TablePairs
      ]_vars

\* the complaint was sent back from resolved to in_progress and then updated
C4_Witness ==
    /\ Len(history) = 4
    /\ history[4].old_status = "resolved"
    /\ history[4].new_status = "in_progress"
    /\ complaints[1].status = "in_progress"
    /\ complaints[1].issue_type_id = 2
    /\ last.op = "update"
    /\ last.code = 200

\* C5: once a complaint is closed or rejected, no step changes its status.
C5_Terminal ==
    [][\A id \in DOMAIN complaints :
          complaints[id].status \in {CLOSED, REJECTED}
              => /\ id \in DOMAIN complaints'
                 /\ complaints'[id].status = complaints[id].status
      ]_vars

\* a rejected complaint was asked to go back to assigned and was refused
C5_Witness ==
    /\ complaints[1].status = "rejected"
    /\ last.op = "change_status"
    /\ last.cid = 1
    /\ last.arg = "assigned"
    /\ last.code = 400

\* C6: a citizen's status-change request succeeds only for resolved -> closed;
\* any other request of a citizen is refused and changes nothing.
C6_CitizenOnlyCloses ==
    [][(StatusStep /\ users[last'.caller].role = USER)
          => \/ /\ last'.code = 200
                /\ complaints[last'.cid].status = RESOLVED
                /\ lower(last'.arg) = CLOSED
             \/ /\ last'.code # 200
                /\ complaints' = complaints
                /\ history' = history]_vars

\* the complaints the caller is entitled to manage
MayManage(caller, c) ==
    \/ users[caller].role = ADMIN
    \/ users[caller].role = USER /\ c.submitted_by = caller /\ c.user_id = caller
    \/ /\ users[caller].role = DEPARTMENT_MANAGER
       /\ c.department = users[caller].department

\* C7: a status change succeeds only on a complaint the caller is entitled to
\* manage; a request on any other complaint is refused and leaves the
\* complaints and the history unchanged.
C7_OnlyEntitled ==
    [][(StatusStep /\ ~MayManage(last'.caller, complaints[last'.cid]))
          => /\ last'.code # 200
             /\ complaints' = complaints
             /\ history' = history]_vars

\* the complaints in the caller's role scope
Scope(caller) ==
    {c \in DOMAIN complaints :
        \/ users[caller].role = ADMIN
        \/ users[caller].role = USER /\ complaints[c].user_id = caller
        \/ /\ users[caller].role = DEPARTMENT_MANAGER
           /\ complaints[c].department = users[caller].department}

\* the elements of a sequence
Range(seq) == {seq[i] : i \in DOMAIN seq}

\* C8: what list and search return to a caller is within the caller's role
\* scope (every complaint for an admin, the caller's own for a citizen, those
\* of the caller's department for a department manager); and a list request
\* with no status filter returns, over its pages, every complaint in the scope.
C8_RoleScope ==
    (last.op \in {"list", "search"} /\ last.code = 200) =>
        /\ Range(last.result.data) \subseteq Scope(last.caller)
        /\ (last.op = "list" /\ ~Truthy(last.arg.status)) =>
              /\ last.result.pagination.total = Cardinality(Scope(last.caller))
              /\ \A c \in Scope(last.caller) :
                     \E p \in 1..Cardinality(DOMAIN complaints) :
                         c \in Range(list_all(last.caller, NoneStr, last.arg.sort,
                                              p, last.arg.page_size)[1])

\* the manager of Sanitation listed the complaints after two of the three
\* were assigned to Sanitation and one to Roads, and got page 2 of the two
C8_Witness ==
    /\ last.op = "list"
    /\ last.code = 200
    /\ last.caller = 2
    /\ ~Truthy(last.arg.status)
    /\ last.arg.page = 2
    /\ last.arg.page_size = 1
    /\ Len(last.result.data) = 1
    /\ Cardinality(Scope(2)) = 2
    /\ \E c \in DOMAIN complaints : complaints[c].department = Roads

\* C9: an unexpired token that login issued for an existing user u is accepted
\* by the authentication dependency, which resolves the caller to u.
C9_RoundTrip ==
    (/\ last.op = "authenticate"
     /\ last.arg \in tokens
     /\ now <= last.arg.payload["exp"]
     /\ last.arg.payload["user_id"] \in DOMAIN users)
        => /\ last.code = 200
           /\ last.result = last.arg.payload["user_id"]

\* the user with the email
user_of(email) == CHOOSE u \in DOMAIN users : users[u].email = email
Registered(email) == \E u \in DOMAIN users : users[u].email = email

\* C10: for a signed-up email, send-OTP finds the user (no 404, no 500) and
\* stores a fresh OTP; verify-OTP with the current code then marks the user
\* verified; and a verified user's login with the right password issues a token.
C10_VerificationCompletes ==
    [][/\ (last'.op = "send_otp" /\ Registered(last'.arg)
           /\ ~Locked(users[user_of(last'.arg)].otp_locked_until))
             => /\ last'.code = 200
                /\ Truthy(users'[user_of(last'.arg)].otp_secret)
                /\ users'[user_of(last'.arg)].otp_expires_at = now + OTP_EXPIRE_MINUTES
       /\ (/\ last'.op = "verify_otp" /\ Registered(last'.arg.email)
           /\ ~Locked(users[user_of(last'.arg.email)].otp_locked_until)
           /\ Truthy(users[user_of(last'.arg.email)].otp_secret)
           /\ now <= users[user_of(last'.arg.email)].otp_expires_at
           /\ last'.arg.otp_code =
                  get_otp_code(users[user_of(last'.arg.email)].otp_secret))
             => /\ last'.code = 200
                /\ users'[user_of(last'.arg.email)].is_verified
       /\ (/\ last'.op = "login" /\ Registered(last'.arg.email)
           /\ users[user_of(last'.arg.email)].is_verified
           /\ ~Locked(users[user_of(last'.arg.email)].login_locked_until)
           /\ verify_password(last'.arg.password,
                              users[user_of(last'.arg.email)].hashed_password))
             => /\ last'.code = 200
                /\ last'.result \in tokens'
      ]_vars

\* the step answered a verify-OTP request for a registered email
VerifyStep == last'.op = "verify_otp" /\ Registered(last'.arg.email)

\* C11: a failed verify-OTP attempt is reported as invalid-OTP (401) or, from
\* the fifth consecutive failure on, as account-locked (429), which sets the
\* lock 15 minutes ahead; while the lock lasts every attempt, whatever its
\* code, is answered account-locked and changes nothing of the user.
C11_OtpLockout ==
    [][VerifyStep =>
          LET u == user_of(last'.arg.email)
              n == users[u].failed_otp_attempts + 1
          IN /\ (users[u].otp_locked_until # NoTime
                 /\ now < users[u].otp_locked_until)
                   => /\ last'.code = 429
                      /\ users' = users
             /\ (/\ ~(users[u].otp_locked_until # NoTime
                      /\ now < users[u].otp_locked_until)
                 /\ Truthy(users[u].otp_secret)
                 /\ now <= users[u].otp_expires_at
                 /\ last'.arg.otp_code # get_otp_code(users[u].otp_secret))
                   => IF n >= MAX_FAILED_ATTEMPTS
                      THEN /\ last'.code = 429
                           /\ users'[u].otp_locked_until = now + LOCK_MINUTES
                      ELSE /\ last'.code = 401
                           /\ users'[u].failed_otp_attempts = n
                           /\ users'[u].otp_locked_until = users[u].otp_locked_until
             /\ last'.code # 200 => last'.code \in {401, 429}
      ]_vars

\* the step answered a password login for a registered email
LoginStep == last'.op = "login" /\ Registered(last'.arg.email)

\* C12: for a verified user a wrong password adds one to
\* failed_login_attempts, and from the fifth cumulative failure on it sets
\* login_locked_until 15 minutes ahead and is answered as locked (429);
\* while login_locked_until is in the future every login, the correct
\* password included, is answered as locked and changes nothing; a successful
\* login resets failed_login_attempts to 0 and clears the lock.
C12_LoginLockout ==
    [][LoginStep =>
          LET u == user_of(last'.arg.email)
              n == users[u].failed_login_attempts + 1
              locked == /\ users[u].login_locked_until # NoTime
                        /\ now < users[u].login_locked_until
              wrong == ~verify_password(last'.arg.password,
                                        users[u].hashed_password)
          IN /\ locked => /\ last'.code = 429
                          /\ users' = users
                          /\ tokens' = tokens
             /\ (~locked /\ users[u].is_verified /\ wrong)
                   => /\ users'[u].failed_login_attempts = n
                      /\ tokens' = tokens
                      /\ IF n >= MAX_FAILED_ATTEMPTS
                         THEN /\ last'.code = 429
                              /\ users'[u].login_locked_until = now + LOCK_MINUTES
                         ELSE /\ last'.code = 401
                              /\ users'[u].login_locked_until
                                     = users[u].login_locked_until
             /\ (~locked /\ users[u].is_verified /\ ~wrong)
                   => last'.code = 200
             /\ last'.code = 200
                   => /\ users'[u].failed_login_attempts = 0
                      /\ users'[u].login_locked_until = NoTime
      ]_vars

\* the correct password of a@x was refused as locked after five failures
C12_Witness ==
    /\ last.op = "login" /\ last.code = 429
    /\ last.arg = [email |-> "a@x", password |-> "pw3"]
    /\ users[3].failed_login_attempts = MAX_FAILED_ATTEMPTS
    /\ now < users[3].login_locked_until

\* C13: sign-up stores the new user with is_verified false; is_verified
\* changes only from false to true and only in a successful verify-OTP step
\* for that user; a login for an unverified user is answered 403 and issues
\* no token, so a login that issues a token is for a verified user.
C13_LoginOnlyVerified ==
    [][/\ \A u \in DOMAIN users' \ DOMAIN users : ~users'[u].is_verified
       /\ \A u \in DOMAIN users :
             /\ u \in DOMAIN users'
             /\ users'[u].is_verified # users[u].is_verified
                   => /\ users'[u].is_verified
                      /\ last'.op = "verify_otp" /\ last'.code = 200
                      /\ last'.arg.email = users[u].email
       /\ LoginStep =>
             LET u == user_of(last'.arg.email)
             IN /\ ~users[u].is_verified
                      => /\ last'.code = 403
                         /\ tokens' = tokens
                         /\ users' = users
                /\ (last'.code = 200 \/ tokens' # tokens)
                      => users[u].is_verified
      ]_vars

\* the user who signed up as new@x logged in with the right password and was
\* refused as unverified
C13_Witness ==
    /\ last.op = "login" /\ last.code = 403
    /\ last.arg = [email |-> "new@x", password |-> "pw5"]
    /\ Registered("new@x")
    /\ verify_password("pw5", users[user_of("new@x")].hashed_password)

\* C14: a successful verify-OTP leaves the user verified with no OTP secret,
\* no expiry, a failure counter of 0 and no lock; a verify-OTP for an unlocked
\* user with no OTP on file is answered OTP-not-sent (401) and changes
\* nothing of the user, the failure counter included.
C14_OtpSingleUse ==
    [][VerifyStep =>
          LET u == user_of(last'.arg.email)
          IN /\ last'.code = 200
                   => /\ users'[u].is_verified
                      /\ users'[u].otp_secret = NoneStr
                      /\ users'[u].otp_expires_at = NoTime
                      /\ users'[u].failed_otp_attempts = 0
                      /\ users'[u].otp_locked_until = NoTime
             /\ (/\ ~(users[u].otp_locked_until # NoTime
                      /\ now < users[u].otp_locked_until)
                 /\ ~Truthy(users[u].otp_secret))
                   => /\ last'.code = 401
                      /\ users' = users
      ]_vars

\* C15: a complaint whose status is pending has no department and no
\* assigned officer.
C15_PendingUnassigned ==
    \A c \in DOMAIN complaints :
        complaints[c].status = PENDING
            => /\ complaints[c].department = NoneStr
               /\ complaints[c].assigned_to = NoneId

\* C16: when a successful status change moves a complaint to assigned, a
\* complaint that had no department gets the name of the parent department
\* of its issue type if that department exists, and a complaint that had a
\* department keeps it.
C16_AutoAssignDepartment ==
    [][(/\ StatusStep
        /\ last'.code = 200
        /\ complaints[last'.cid].status # ASSIGNED
        /\ complaints'[last'.cid].status = ASSIGNED)
         => LET c == complaints[last'.cid]
                it == c.issue_type_id
            IN /\ (/\ c.department = NoneStr
                   /\ it \in DOMAIN issue_types
                   /\ issue_types[it].department_id \in DOMAIN departments)
                     => complaints'[last'.cid].department
                            = departments[issue_types[it].department_id]
               /\ c.department # NoneStr
                     => complaints'[last'.cid].department = c.department
      ]_vars

\* C17: an assign-to-officer request by an admin, or by a manager for an
\* officer of the manager's department, on an existing complaint with an
\* existing officer succeeds and sets assigned_to to the officer; a pending
\* complaint becomes assigned and any other status is kept.
C17_AssignOfficerSucceeds ==
    [][(/\ last'.op = "assign_to_officer"
        /\ last'.cid \in DOMAIN complaints
        /\ last'.arg \in DOMAIN users
        /\ \/ users[last'.caller].role = ADMIN
           \/ /\ users[last'.caller].role = DEPARTMENT_MANAGER
              /\ users[last'.arg].department = users[last'.caller].department)
         => /\ last'.code = 200
            /\ complaints'[last'.cid].assigned_to = last'.arg
            /\ complaints'[last'.cid].status =
                   IF complaints[last'.cid].status = PENDING
                   THEN ASSIGNED ELSE complaints[last'.cid].status
      ]_vars

References ==
    /\ \A c \in DOMAIN complaints :
          /\ complaints[c].user_id \in DOMAIN users
          /\ complaints[c].issue_type_id \in DOMAIN issue_types
    /\ \A i \in DOMAIN issue_types :
          issue_types[i].department_id \in DOMAIN departments

\* C19: creating a complaint with an issue-type id that does not exist, or an
\* issue type with a department id that does not exist, is answered 404 and
\* adds no row; every complaint references an existing user and issue type
\* and every issue type an existing department, in every reachable state.
C19_ReferentialIntegrity ==
    /\ References
    /\ [][/\ (last'.op = "create"
              /\ last'.arg.issue_type_id \notin DOMAIN issue_types)
                => last'.code = 404 /\ complaints' = complaints
          /\ (last'.op = "create_issue_type"
              /\ last'.arg.department_id \notin DOMAIN departments)
                => last'.code = 404 /\ issue_types' = issue_types
          /\ References'
         ]_vars

\* a complaint naming issue type 9 was refused while the department Parks and
\* an issue type of it had been added and complaint 1 moved to that type
C19_Witness ==
    /\ last.op = "create" /\ last.code = 404
    /\ last.arg.issue_type_id \notin DOMAIN issue_types
    /\ 3 \in DOMAIN departments /\ departments[3] = Parks
    /\ 3 \in DOMAIN issue_types /\ issue_types[3].department_id = 3
    /\ complaints[1].issue_type_id = 3

\* no two users share an email
UniqueEmails ==
    \A u, v \in DOMAIN users : users[u].email = users[v].email => u = v

\* C20: no two users share an email in any reachable state; a signup, or a
\* user-create by an admin, with an email that is already registered is
\* answered with a conflict (409) or already-exists (400) error and leaves
\* the users, the first holder of the email included, as they were.
C20_UniqueEmail ==
    /\ UniqueEmails
    /\ [][/\ (last'.op = "signup" /\ Registered(last'.arg))
                => last'.code = 409 /\ users' = users
          /\ (/\ last'.op = "create_user"
              /\ users[last'.caller].role = ADMIN
              /\ Registered(last'.arg.email))
                => last'.code = 400 /\ users' = users
          /\ UniqueEmails'
         ]_vars

\* the admin's user-create for new@x was refused after new@x had signed up
C20_Witness ==
    /\ last.op = "create_user" /\ last.caller = 1
    /\ last.arg.email = "new@x" /\ last.code = 400
    /\ Cardinality({u \in DOMAIN users : users[u].email = "new@x"}) = 1
    /\ Len(users) = Cardinality({users[u].email : u \in DOMAIN users})

\* the step answered a user-create or role-update request that passed the
\* validation of its body
UserAdminStep ==
    /\ last'.op \in {"create_user", "update_user_role"}
    /\ last'.code # 422

\* C21: the role of a stored user changes only in a role-update step whose
\* caller is an admin; a user who is added with a role other than `user` is
\* added by an admin's user-create; a user-create or role-update by a caller
\* who is not an admin is answered 403 and leaves every user as it was.
C21_NoEscalation ==
    [][/\ \A u \in DOMAIN users :
             /\ u \in DOMAIN users'
             /\ users'[u].role # users[u].role
                   => /\ last'.op = "update_user_role" /\ last'.cid = u
                      /\ users[last'.caller].role = ADMIN
       /\ \A u \in DOMAIN users' \ DOMAIN users :
             users'[u].role # USER
                   => /\ last'.op = "create_user"
                      /\ users[last'.caller].role = ADMIN
       /\ (UserAdminStep /\ users[last'.caller].role # ADMIN)
             => last'.code = 403 /\ users' = users
      ]_vars

\* the citizen a@x asked to become an admin and was refused, after the admin
\* had made the manager (user 2) a citizen
C21_Witness ==
    /\ last.op = "update_user_role" /\ last.caller = 3 /\ last.cid = 3
    /\ last.arg.role = ADMIN /\ last.code = 403
    /\ users[3].role = USER
    /\ users[2].role = USER

\* C22: every user whose role is department_manager has a department that
\* is set and not blank.
C22_ManagerHasDepartment ==
    \A u \in DOMAIN users :
        users[u].role = DEPARTMENT_MANAGER => Truthy(strip(users[u].department))

\* the citizen a@x has been made manager of Roads, and a further request to
\* make the former manager (user 2), now an admin, a manager with a blank
\* department was turned down
C22_Witness ==
    /\ users[3].role = DEPARTMENT_MANAGER /\ users[3].department = Roads
    /\ users[2].role = ADMIN
    /\ last.op = "update_user_role" /\ last.cid = 2
    /\ last.arg = [role |-> DEPARTMENT_MANAGER, department |-> Blank]
    /\ last.code = 422

\* the step answered a department assignment for an existing complaint
AssignStep == last'.op = "assign" /\ last'.cid \in DOMAIN complaints

\* C23: a department assignment succeeds only for an admin, or for a
\* department manager who names the manager's own department; a manager who
\* names another department, and any citizen, is answered 403 and the
\* complaint's department stays as it was.
C23_AssignDepartment ==
    [][AssignStep =>
          LET role == users[last'.caller].role
              own == last'.arg = users[last'.caller].department
          IN /\ last'.code = 200
                   => \/ role = ADMIN
                      \/ role = DEPARTMENT_MANAGER /\ own
             /\ (role = USER \/ (role = DEPARTMENT_MANAGER /\ ~own))
                   => /\ last'.code = 403
                      /\ complaints'[last'.cid].department
                             = complaints[last'.cid].department
             /\ last'.code # 200 => complaints' = complaints
      ]_vars

\* the manager of Sanitation asked to move complaint 2 to Roads and was
\* refused, while complaint 1 is assigned to Sanitation
C23_Witness ==
    /\ last.op = "assign" /\ last.caller = 2 /\ last.cid = 2
    /\ last.arg = Roads /\ last.code = 403
    /\ complaints[1].department = Sanitation
    /\ complaints[2].department # Roads

\* the step answered a chat message that named no conversation or one of the
\* caller's own
ChatTurn ==
    /\ last'.op = "chat"
    /\ \/ last'.arg = NoneStr
       \/ /\ last'.arg \in DOMAIN conversations
          /\ conversations[last'.arg].user_id = last'.caller

\* the conversation of the turn, and the extraction the turn works with: the
\* model's answer, or what the conversation held when the call failed
TurnConversation ==
    IF last'.arg = NoneStr
    THEN CHOOSE c \in ConversationIds :
             (DOMAIN conversations' \ DOMAIN conversations) \subseteq {c}
    ELSE last'.arg

TurnExtraction ==
    IF last'.result.kind # "error" THEN last'.result
    ELSE IF last'.arg = NoneStr THEN NoData
    ELSE conversations[last'.arg].extracted_data

\* C24: a chat step adds a complaint only when the extraction of that turn
\* needs no clarification and has confidence of at least 0.7; a turn whose
\* extraction needs clarification or has a lower confidence adds no
\* complaint, is answered with a question (200, no complaint id) and leaves
\* the conversation in place holding that extraction.
C24_ChatThreshold ==
    [][/\ (last'.op = "chat" /\ complaints' # complaints)
             => /\ ChatTurn
                /\ TurnExtraction.kind = "extraction"
                /\ ~TurnExtraction.needs_clarification
                /\ TurnExtraction.confidence >= 7
       /\ (/\ ChatTurn
           /\ TurnExtraction.kind = "extraction"
           /\ \/ TurnExtraction.needs_clarification
              \/ TurnExtraction.confidence < 7)
             => /\ complaints' = complaints
                /\ last'.code = 200 /\ last'.cid = NoneId
                /\ TurnConversation \in DOMAIN conversations'
                /\ conversations'[TurnConversation].extracted_data = TurnExtraction
                /\ conversations'[TurnConversation].user_id = last'.caller
      ]_vars

\* a follow-up of a@x in conversation c1 came back with confidence 0.6: the
\* conversation now holds four messages and that extraction, and no
\* complaint was added
C24_Witness ==
    /\ last.op = "chat" /\ last.caller = 3 /\ last.arg = "c1"
    /\ last.result = Extraction("Sanitation", 6, FALSE)
    /\ last.code = 200 /\ last.cid = NoneId
    /\ "c1" \in DOMAIN conversations
    /\ conversations["c1"].extracted_data = Extraction("Sanitation", 6, FALSE)
    /\ Len(conversations["c1"].messages) = 4
    /\ DOMAIN complaints = {1}

\* C25: a chat message that names a conversation of another user is answered
\* 403 and one that names an unknown conversation 404; neither appends a
\* message to or writes an extraction into any conversation, and neither
\* adds a complaint.
C25_ForeignConversation ==
    [][(last'.op = "chat" /\ last'.arg # NoneStr)
         => /\ last'.arg \notin DOMAIN conversations
                  => /\ last'.code = 404
                     /\ conversations' = conversations
                     /\ complaints' = complaints
            /\ (/\ last'.arg \in DOMAIN conversations
                /\ conversations[last'.arg].user_id # last'.caller)
                  => /\ last'.code = 403
                     /\ conversations' = conversations
                     /\ complaints' = complaints
      ]_vars

\* b@x wrote into conversation c1, which a@x had opened, and was refused
C25_Witness ==
    /\ last.op = "chat" /\ last.caller = 4 /\ last.arg = "c1"
    /\ last.code = 403
    /\ "c1" \in DOMAIN conversations
    /\ conversations["c1"].user_id = 3
    /\ Len(conversations["c1"].messages) = 2

C27_UniformErrorBody ==
    (last.op \notin {"none", "tick"} /\ last.code \notin 200..299)
        => \A class \in raised_as(last.op, last.code) :
               {"detail", "error_code", "path"} \subseteq error_body(class)

(***************************************************************************)
(* The work queue: GET /workflow/my-queue.                                 *)
(***************************************************************************)

\* the values the column comment of Complaint.urgency lists
UrgencyLevels == {"low", "medium", "high", "critical"}

\* the rank of an urgency in the order critical > high > medium > low
priority(urgency) ==
    CASE urgency = "low" -> 1 [] urgency = "medium" -> 2
      [] urgency = "high" -> 3 [] urgency = "critical" -> 4

\* the place of an urgency among the four when they are compared as the
\* strings the column holds: "critical" < "high" < "low" < "medium"
collate(urgency) ==
    CASE urgency = "critical" -> 1 [] urgency = "high" -> 2
      [] urgency = "low" -> 3 [] urgency = "medium" -> 4

\* the rows get_my_queue selects: a manager's department, anyone else's own
\* assignments, narrowed by the lower-cased status filter
get_my_queue_filter(caller, status_filter) ==
    LET mine == IF users[caller].role = DEPARTMENT_MANAGER
                THEN {c \in DOMAIN complaints :
                         complaints[c].department = users[caller].department}
                ELSE {c \in DOMAIN complaints : complaints[c].assigned_to = caller}
    IN IF Truthy(status_filter)
       THEN {c \in mine : complaints[c].status = lower(status_filter)}
       ELSE mine

\* ORDER BY urgency DESC, created_at ASC: the orders of the rows of S the
\* database may return (rows equal on both keys come in either order)
get_my_queue_order(S) ==
    {rows \in [1..Cardinality(S) -> S] :
        /\ \A i, j \in DOMAIN rows : i # j => rows[i] # rows[j]
        /\ \A i, j \in DOMAIN rows : i < j =>
              LET a == complaints[rows[i]]
                  b == complaints[rows[j]]
              IN \/ collate(a.urgency) > collate(b.urgency)
                 \/ /\ collate(a.urgency) = collate(b.urgency)
                    /\ a.created_at <= b.created_at}

\* GET /workflow/my-queue: citizens are refused, everyone else gets the
\* selected rows in the order of the query
GetMyQueue(caller, status_filter) ==
    /\ IF users[caller].role = USER
       THEN last' = Response("my_queue", caller, NoneId, status_filter, 403, <<>>)
       ELSE \E rows \in get_my_queue_order(get_my_queue_filter(caller, status_filter)) :
               last' = Response("my_queue", caller, NoneId, status_filter, 200, rows)
    /\ UNCHANGED <<users, complaints, history, tokens, now, tr, conversations, catalog, inflight>>

\* three complaints filed at different or equal times with any urgencies,
\* two in the Sanitation department and two assigned to the admin
InitQueue ==
    /\ users = SeedUsers
    /\ \E u \in [1..3 -> UrgencyLevels], t \in {<<1, 2, 3>>, <<3, 2, 1>>, <<1, 1, 2>>} :
          complaints =
              (1 :> [NewComplaint(3, 3, Garbage, t[1])
                         EXCEPT !.urgency = u[1], !.department = Sanitation])
              @@ (2 :> [NewComplaint(4, 4, Pothole, t[2])
                         EXCEPT !.urgency = u[2], !.department = Sanitation,
                                !.assigned_to = 1, !.assigned_at = 3,
                                !.status = ASSIGNED])
              @@ (3 :> [NewComplaint(3, 3, Pothole, t[3])
                         EXCEPT !.urgency = u[3], !.assigned_to = 1,
                                !.assigned_at = 3, !.status = ASSIGNED])
    /\ history = <<>>
    /\ tokens = {}
    /\ now = 4
    /\ last = NoRequest
    /\ tr = NoCheck
    /\ conversations = <<>>
    /\ inflight = <<>>
    /\ departments = SeedDepartments
    /\ issue_types = SeedIssueTypes

NextQueue ==
    \/ \E caller \in {1, 2, 3}, status_filter \in {NoneStr, "ASSIGNED", "pending"} :
           GetMyQueue(caller, status_filter)
    \/ AssignComplaint(1, 3, Sanitation, TRUE)

SpecQueue == InitQueue /\ [][NextQueue]_vars

(***************************************************************************)
(* The texts of a complaint: POST /complaints/ and PUT /complaints/{id}    *)
(* with descriptions and addresses around the limits of the schema.        *)
(***************************************************************************)
\* n times a word of ten characters: 11 * n - 1 characters
Repeat(n) == [i \in 1..n |-> "abcdefghij"]

\* 9, 10, 1000 and 1001 characters; ten characters of which three are not
\* spaces; ten spaces
Descriptions ==
    {<<"nine", "char">>, <<"tenth", "char">>, Repeat(91), Repeat(91) \o <<"">>,
     <<"", "", "", "abc", "", "", "", "">>,
     <<"", "", "", "", "", "", "", "", "", "", "">>}

\* 11, 2, 500 and 501 characters; five characters of which two are not spaces
Addresses ==
    {<<"main", "street">>, <<"ab">>, Repeat(45) \o <<"abcde">>,
     Repeat(45) \o <<"abcde", "">>, <<"", "", "", "ab">>}

TextRequests ==
    {[issue_type_id |-> 1, description |-> d, address |-> a] :
        d \in Descriptions, a \in Addresses}

InitTexts ==
    /\ users = SeedUsers
    /\ complaints = (1 :> NewComplaint(3, 3, Garbage, 1))
    /\ history = <<>>
    /\ tokens = {}
    /\ now = 4
    /\ last = NoRequest
    /\ tr = NoCheck
    /\ conversations = <<>>
    /\ inflight = <<>>
    /\ departments = SeedDepartments
    /\ issue_types = SeedIssueTypes

NextTexts ==
    \/ \E caller \in {3, 4}, data \in TextRequests, commit_ok \in BOOLEAN :
           UpdateComplaint(caller, 1, data, commit_ok)
    \/ \E data \in TextRequests : CreateComplaint(3, data, TRUE)

SpecTexts == InitTexts /\ [][NextTexts]_vars

(***************************************************************************)
(* Status changes that overlap: each request of change_status first reads  *)
(* the complaint and validates against what it read, and later commits the *)
(* attributes it changed together with its history row.                    *)
(***************************************************************************)
\* requests that can be between their read and their commit at a time
MaxInflight == 2

\* lines 58-69: the query and the validation; a request that passes is on
\* its way with the row it read
BeginChangeStatus(r, caller, complaint_id, new_status, comment, reason) ==
    LET code == change_status_check(complaint_id, new_status)
    IN /\ r \notin DOMAIN inflight
       /\ IF code # 200
          THEN /\ last' = Response("change_status", caller, complaint_id,
                                   new_status, code, <<>>)
               /\ UNCHANGED <<users, complaints, history, tokens, now, tr, conversations, catalog, inflight>>
          ELSE /\ inflight' = inflight @@
                      (r :> [caller |-> caller, complaint_id |-> complaint_id,
                             new_status |-> new_status, comment |-> comment,
                             reason |-> reason, read |-> complaints[complaint_id]])
               /\ UNCHANGED <<users, complaints, history, tokens, now, last, tr, conversations, catalog>>

\* lines 72-112: the session's row is changed, the UPDATE writes the
\* attributes whose value differs from the one read, the history row is
\* inserted and both are committed; or the commit fails and is rolled back
CommitChangeStatus(r, commit_ok) ==
    /\ r \in DOMAIN inflight
    /\ LET q == inflight[r]
           new == change_status_apply(q.read, q.new_status, q.caller, q.comment)
           stored == complaints[q.complaint_id]
           written == [f \in DOMAIN stored |->
                          IF new[f] # q.read[f] THEN new[f] ELSE stored[f]]
           resp(k) == Response("change_status", q.caller, q.complaint_id,
                               q.new_status, k, <<>>)
       IN /\ inflight' = [x \in DOMAIN inflight \ {r} |-> inflight[x]]
          /\ IF ~commit_ok
             THEN /\ last' = resp(500)
                  /\ UNCHANGED <<users, complaints, history, tokens, now, tr, conversations, catalog>>
             ELSE /\ Len(history) < MaxHistory
                  /\ complaints' = [complaints EXCEPT ![q.complaint_id] = written]
                  /\ history' = Append(history,
                         history_row(q.complaint_id, q.read, new, q.new_status,
                                     q.caller, q.comment, q.reason))
                  /\ last' = resp(200)
                  /\ UNCHANGED <<users, tokens, now, tr, conversations, catalog>>

InitRace ==
    /\ users = SeedUsers
    /\ complaints = (1 :> NewComplaint(4, 4, Garbage, 1))
    /\ history = <<>>
    /\ tokens = {}
    /\ now = 2
    /\ last = NoRequest
    /\ tr = NoCheck
    /\ conversations = <<>>
    /\ inflight = <<>>
    /\ departments = SeedDepartments
    /\ issue_types = SeedIssueTypes

NextRace ==
    \/ \E r \in 1..MaxInflight, new_status \in ComplaintStatus :
           BeginChangeStatus(r, 1, 1, new_status, NoneStr, NoneStr)
    \/ \E r \in 1..MaxInflight, commit_ok \in BOOLEAN :
           CommitChangeStatus(r, commit_ok)

SpecRace == InitRace /\ [][NextRace]_vars

(***************************************************************************)
(* main.py: the routes of the prefix /complaints in the order in which     *)
(* they are registered, and the dispatch of a request to the first route   *)
(* whose path and method match.                                            *)
(***************************************************************************)
\* A path is the sequence of its pieces between the slashes, a piece the
\* sequence of its characters; <<"{", "}">> stands for the path parameter
\* {complaint_id}.  complaints.router is included before workflow.router,
\* and each router keeps the order of its decorators.
routes ==
    <<[method |-> "POST", endpoint |-> "create_complaint",
       path |-> <<<<"c", "o", "m", "p", "l", "a", "i", "n", "t", "s">>, <<>>>>],
      [method |-> "GET", endpoint |-> "search_complaints",
       path |-> <<<<"c", "o", "m", "p", "l", "a", "i", "n", "t", "s">>, <<"s", "e", "a", "r", "c", "h">>>>],
      [method |-> "GET", endpoint |-> "get_complaint",
       path |-> <<<<"c", "o", "m", "p", "l", "a", "i", "n", "t", "s">>, <<"{", "}">>>>],
      [method |-> "GET", endpoint |-> "list_complaints",
       path |-> <<<<"c", "o", "m", "p", "l", "a", "i", "n", "t", "s">>, <<>>>>],
      [method |-> "PUT", endpoint |-> "update_complaint",
       path |-> <<<<"c", "o", "m", "p", "l", "a", "i", "n", "t", "s">>, <<"{", "}">>>>],
      [method |-> "DELETE", endpoint |-> "delete_complaint",
       path |-> <<<<"c", "o", "m", "p", "l", "a", "i", "n", "t", "s">>, <<"{", "}">>>>],
      [method |-> "PATCH", endpoint |-> "assign_complaint",
       path |-> <<<<"c", "o", "m", "p", "l", "a", "i", "n", "t", "s">>, <<"{", "}">>, <<"a", "s", "s", "i", "g", "n">>>>],
      [method |-> "PATCH", endpoint |-> "change_complaint_status",
       path |-> <<<<"c", "o", "m", "p", "l", "a", "i", "n", "t", "s">>, <<"{", "}">>, <<"s", "t", "a", "t", "u", "s">>>>],
      [method |-> "POST", endpoint |-> "assign_to_officer",
       path |-> <<<<"c", "o", "m", "p", "l", "a", "i", "n", "t", "s">>, <<"{", "}">>, <<"a", "s", "s", "i", "g", "n", "-", "o", "f", "f", "i", "c", "e", "r">>>>],
      [method |-> "GET", endpoint |-> "get_status_history",
       path |-> <<<<"c", "o", "m", "p", "l", "a", "i", "n", "t", "s">>, <<"{", "}">>, <<"h", "i", "s", "t", "o", "r", "y">>>>],
      [method |-> "GET", endpoint |-> "get_my_work_queue",
       path |-> <<<<"c", "o", "m", "p", "l", "a", "i", "n", "t", "s">>, <<"m", "y", "-", "q", "u", "e", "u", "e">>>>],
      [method |-> "GET", endpoint |-> "get_allowed_transitions",
       path |-> <<<<"c", "o", "m", "p", "l", "a", "i", "n", "t", "s">>, <<"{", "}">>, <<"a", "l", "l", "o", "w", "e", "d", "-", "t", "r", "a", "n", "s", "i", "t", "i", "o", "n", "s">>>>]>>

\* the path pattern of a route: a literal piece matches itself, a parameter
\* matches any piece of at least one character ([^/]+)
path_matches(pattern, path) ==
    /\ Len(pattern) = Len(path)
    /\ \A i \in DOMAIN pattern :
          IF pattern[i] = <<"{", "}">> THEN path[i] # <<>>
          ELSE pattern[i] = path[i]

\* Router: the first route whose path and method match; 0 when no path
\* matches, -1 when a path matches under another method only
route_for(method, path) ==
    LET full == {i \in DOMAIN routes : /\ path_matches(routes[i].path, path)
                                       /\ routes[i].method = method}
        partial == {i \in DOMAIN routes : path_matches(routes[i].path, path)}
    IN IF full # {} THEN CHOOSE i \in full : \A j \in full : i <= j
       ELSE IF partial # {} THEN -1 ELSE 0

Digit ==
    ("0" :> 0) @@ ("1" :> 1) @@ ("2" :> 2) @@ ("3" :> 3) @@ ("4" :> 4)
    @@ ("5" :> 5) @@ ("6" :> 6) @@ ("7" :> 7) @@ ("8" :> 8) @@ ("9" :> 9)

\* complaint_id: int on a path piece: the number the decimal digits spell,
\* -1 (a validation error) for any other piece
RECURSIVE path_int(_)
path_int(piece) ==
    IF piece = <<>> \/ \E i \in DOMAIN piece : piece[i] \notin DOMAIN Digit THEN -1
    ELSE IF Len(piece) = 1 THEN Digit[piece[1]]
    ELSE 10 * path_int(SubSeq(piece, 1, Len(piece) - 1)) + Digit[piece[Len(piece)]]

\* a request under /complaints by a resolved caller.  The route is chosen
\* before its parameters are validated: a piece that is no integer is
\* answered 422 by the route that took the request.
Dispatch(method, path, caller) ==
    LET r == route_for(method, path)
        endpoint == IF r > 0 THEN routes[r].endpoint ELSE "none"
        id == path_int(path[2])
        same == <<users, complaints, history, tokens, now, tr, conversations, catalog, inflight>>
    IN IF r = 0
       THEN /\ last' = Response("route", caller, NoneId, NoneStr, 404, <<>>)
            /\ UNCHANGED same
       ELSE IF r = -1
       THEN /\ last' = Response("route", caller, NoneId, NoneStr, 405, <<>>)
            /\ UNCHANGED same
       ELSE IF endpoint = "get_my_work_queue" THEN GetMyQueue(caller, NoneStr)
       ELSE IF endpoint \in {"get_complaint", "get_status_history"} /\ id = -1
       THEN /\ last' = Response(endpoint, caller, NoneId, NoneStr, 422, <<>>)
            /\ UNCHANGED same
       ELSE IF endpoint = "get_complaint" THEN GetComplaint(caller, id)
       ELSE IF endpoint = "get_status_history" THEN GetStatusHistory(caller, id)
       ELSE FALSE

\* the requests sent: method and path
RouteRequests ==
    {<<"GET", <<<<"c", "o", "m", "p", "l", "a", "i", "n", "t", "s">>, <<"1">>>>>>,
     <<"GET", <<<<"c", "o", "m", "p", "l", "a", "i", "n", "t", "s">>, <<"2">>>>>>,
     <<"GET", <<<<"c", "o", "m", "p", "l", "a", "i", "n", "t", "s">>, <<"9">>>>>>,
     <<"GET", <<<<"c", "o", "m", "p", "l", "a", "i", "n", "t", "s">>, <<"m", "y", "-", "q", "u", "e", "u", "e">>>>>>,
     <<"GET", <<<<"c", "o", "m", "p", "l", "a", "i", "n", "t", "s">>, <<"1">>, <<"h", "i", "s", "t", "o", "r", "y">>>>>>,
     <<"GET", <<<<"c", "o", "m", "p", "l", "a", "i", "n", "t", "s">>, <<"m", "y", "-", "q", "u", "e", "u", "e">>, <<"h", "i", "s", "t", "o", "r", "y">>>>>>,
     <<"GET", <<<<"c", "o", "m", "p", "l", "a", "i", "n", "t", "s">>, <<"1">>, <<"c", "o", "m", "m", "e", "n", "t", "s">>>>>>,
     <<"POST", <<<<"c", "o", "m", "p", "l", "a", "i", "n", "t", "s">>, <<"m", "y", "-", "q", "u", "e", "u", "e">>>>>>}

InitRoute == InitQuery

NextRoute ==
    \/ \E caller \in QueryCallers, q \in RouteRequests : Dispatch(q[1], q[2], caller)
    \/ \E id \in {1, 2, 3}, d \in {Sanitation, Roads} : AssignComplaint(1, id, d, TRUE)

SpecRoute == InitRoute /\ [][NextRoute]_vars

\* C28: a list request with page >= 1 and 1 <= page_size <= 100 over at
\* least one matching row is answered with pages = ceil(total / page_size),
\* has_next set exactly when page < pages, has_prev set exactly when
\* page > 1, and min(page_size, max(0, total - (page - 1) * page_size)) rows.
C28_Pagination ==
    (/\ last.op = "list"
     /\ last.arg.page >= 1
     /\ last.arg.page_size \in 1..100
     /\ Cardinality({c \in Scope(last.caller) :
                        Truthy(last.arg.status)
                            => complaints[c].status = last.arg.status}) >= 1)
        => /\ last.code = 200
           /\ LET m == last.result.pagination
                  size == last.arg.page_size
                  rest == m.total - (last.arg.page - 1) * size
              IN /\ m.total = Cardinality({c \in Scope(last.caller) :
                                  Truthy(last.arg.status)
                                      => complaints[c].status = last.arg.status})
                 /\ m.pages * size >= m.total
                 /\ (m.pages - 1) * size < m.total
                 /\ m.has_next = (IF last.arg.page < m.pages THEN 1 ELSE 0)
                 /\ m.has_prev = (IF last.arg.page > 1 THEN 1 ELSE 0)
                 /\ Len(last.result.data) = Min(size, Max(0, rest))

\* the admin asked for page 2 of three complaints in pages of two: two
\* pages, one row on this one, a previous page and no next page
C28_Witness ==
    /\ last.op = "list" /\ last.caller = 1 /\ last.code = 200
    /\ last.arg.page = 2 /\ last.arg.page_size = 2
    /\ last.result.pagination.total = 3
    /\ last.result.pagination.pages = 2
    /\ last.result.pagination.has_next = 0
    /\ last.result.pagination.has_prev = 1
    /\ Len(last.result.data) = 1

C30_TextLengths ==
    /\ \A c \in DOMAIN complaints :
          /\ len(text_strip(complaints[c].description)) \in 10..1000
          /\ len(text_strip(complaints[c].address)) \in 5..500
    /\ (/\ last.op \in {"create", "update"}
        /\ last.code \notin {401, 403, 404}
        /\ \/ len(text_strip(last.arg.description)) < 10
           \/ len(text_strip(last.arg.address)) < 5)
          => last.code = 422

C35_CaseBlindEffects ==
    [][(StatusStep /\ last'.code = 200)
          => LET old == complaints[last'.cid]
                 new == complaints'[last'.cid]
             IN /\ new.status = lower(last'.arg)
                /\ new.status = ASSIGNED => new.assigned_at = now
                /\ (new.status = IN_PROGRESS /\ old.assigned_to = NoneId)
                      => new.assigned_to = last'.caller
                /\ new.status = RESOLVED
                      => new.resolved_at = now /\ new.resolved_by = last'.caller
      ]_vars

C37_NoTakeover ==
    [][(/\ AssignStep
        /\ last'.code = 200
        /\ users[last'.caller].role = DEPARTMENT_MANAGER)
          => complaints[last'.cid].department
                 \in {NoneStr, users[last'.caller].department}
      ]_vars

\* C38: failed_login_attempts never exceeds 5, and a wrong password sent
\* after a login lock has expired is answered 401 and starts no new lock.
C38_FreshAllowance ==
    /\ \A u \in DOMAIN users : users[u].failed_login_attempts <= MAX_FAILED_ATTEMPTS
    /\ [][(/\ LoginStep
           /\ \E u \in DOMAIN users :
                 /\ users[u].email = last'.arg.email
                 /\ users[u].login_locked_until # NoTime
                 /\ now >= users[u].login_locked_until
                 /\ users[u].is_verified
                 /\ ~verify_password(last'.arg.password, users[u].hashed_password))
             => /\ last'.code = 401
                /\ \A u \in DOMAIN users :
                      users'[u].login_locked_until = users[u].login_locked_until
         ]_vars

\* C39: every list request of a caller who may list, whatever its page and
\* page_size, is answered 200, and the metadata reports the clamped page and
\* page_size that selected the rows, with pages, has_next and has_prev
\* computed from them.
C39_ClampedMetadata ==
    (/\ last.op = "list"
     /\ require_any_permission(last.caller, ViewPermissions) = 200)
        => /\ last.code = 200
           /\ LET m == last.result.pagination
                  page == clamp_page(last.arg.page)
                  size == clamp_page_size(last.arg.page_size)
              IN /\ m.page = page
                 /\ m.page_size = size
                 /\ m.pages = (IF m.total > 0
                               THEN (m.total + size - 1) \div size ELSE 1)
                 /\ m.has_next = (IF page < m.pages THEN 1 ELSE 0)
                 /\ m.has_prev = (IF page > 1 THEN 1 ELSE 0)
                 /\ Len(last.result.data)
                        = Min(size, Max(0, m.total - (page - 1) * size))

\* C40: with the routers in the application's order, GET /complaints/my-queue
\* sent by the admin or by a department manager reaches the work-queue
\* handler and is answered 200 with the caller's queue.
C40_MyQueueReached ==
    [][\A caller \in {1, 2} :
          Dispatch("GET", <<<<"c", "o", "m", "p", "l", "a", "i", "n", "t", "s">>, <<"m", "y", "-", "q", "u", "e", "u", "e">>>>, caller)
              => /\ last'.op = "my_queue"
                 /\ last'.code = 200
                 /\ last'.result \in get_my_queue_order(get_my_queue_filter(caller, NoneStr))
      ]_vars

====
